---- MODULE Spec2Model ----
(***************************************************************************)
(* Propensity-to-sell scoring engine of td-seller-intelligence             *)
(* (scripts/scoring/calculate_scores.py) together with the spreadsheet     *)
(* calls it makes (scripts/sheets_sync.py).                                *)
(*                                                                         *)
(* Number representation.  Python floats are modelled in fixed point:      *)
(*   years_owned, equity_gain_pct, turnover_rate_12mo : hundredths         *)
(*   the six weight_* values and min_years_owned       : hundredths         *)
(*   dollar amounts, scores, thresholds                : whole numbers      *)
(* round() is Python 3's round-half-to-even.                               *)
(*                                                                         *)
(* A spreadsheet cell (or dict value) that the code converts with float()  *)
(* or int() is a tagged value: Num(v), Blank ('' or missing, falsy) or Bad *)
(* (a string the conversion rejects with ValueError).                      *)
(***************************************************************************)
EXTENDS Integers, Sequences, FiniteSets, TLC

VARIABLES
    config,              \* ScoringEngine.config
    neighborhood_stats,  \* ScoringEngine.neighborhood_stats : ZIP -> stats
    errors,              \* ScoringEngine.errors
    has_client,          \* ScoringEngine.sheets_client is set
    store_config,        \* the Config tab of the spreadsheet
    master,              \* the Master Properties tab (data rows)
    hot_tab,             \* the Hot Leads tab (data rows)
    warm_tab,            \* the Warm Leads tab (data rows)
    stats_tab,           \* the Neighborhood Stats tab (data rows)
    run_log,             \* the row the current run() appended to the Run Log tab
    pc,                  \* position inside run() / score_properties()
    dry_run,             \* run()'s argument
    properties,          \* run()'s local: the batch being processed
    scored_properties,   \* run()'s local: what score_properties returned
    hot_leads,           \* run()'s local
    warm_leads,          \* run()'s local
    write_error,         \* run()'s except branch was taken
    summary,             \* what run() returned
    calls,               \* spreadsheet calls made by the current run()
    before,              \* history: the four output tabs when run() was entered
    raw_data,            \* transform_property's argument
    record,              \* transform_property's local: the formatted record
    validation,          \* what validate_property_record returned
    result,              \* what transform_property returned
    addresses,           \* is_owner_occupied's arguments
    normalized,          \* is_owner_occupied's locals norm_property, norm_mailing
    owner_occupied       \* what is_owner_occupied returned

vars == <<config, neighborhood_stats, errors, has_client, store_config, master,
          hot_tab, warm_tab, stats_tab, run_log, pc, dry_run, properties,
          scored_properties, hot_leads, warm_leads, write_error, summary, calls,
          before, raw_data, record, validation, result, addresses, normalized,
          owner_occupied>>

\* the variables of the ingest utilities (scripts/utils/address_utils.py)
utilVars == <<raw_data, record, validation, result, addresses, normalized,
              owner_occupied>>

-----------------------------------------------------------------------------
(* Bounds of the model *)

MaxBatch == 2
MaxScoreBatch == 2
MaxFailing == 6
MaxCarriedErrors == 1

-----------------------------------------------------------------------------
(* Cells and conversions *)

Num(v) == [t |-> "num", v |-> v]
Blank == [t |-> "blank", v |-> 0]
Bad == [t |-> "bad", v |-> 0]

Ok(v) == [ok |-> TRUE, val |-> v]
Raise == [ok |-> FALSE, val |-> 0]

\* float(d.get(k, 0) or 0) and int(d.get(k, 0) or 0)
FloatOrZero(c) ==
    IF c.t = "bad" THEN Raise
    ELSE IF c.t = "blank" THEN Ok(0)
    ELSE Ok(c.v)

\* Python 3 round(n / d) for d > 0: ties go to the even neighbour
RoundHalfEven(n, d) ==
    LET q == n \div d
        r == n % d
    IN  IF 2 * r < d THEN q
        ELSE IF 2 * r > d THEN q + 1
        ELSE IF q % 2 = 0 THEN q ELSE q + 1

Min(a, b) == IF a < b THEN a ELSE b
Max(a, b) == IF a > b THEN a ELSE b

\* the clock: date.today() as a day number, datetime.now().year
Today == 20763
CurrentYear == 2026

PRIMARY_SERVICE_ZIPS == {"43081", "43082", "43016", "43017", "43065", "43230",
    "43054", "43026", "43220", "43221", "43085", "43123", "43147", "43004",
    "43202", "43214", "43015", "43035", "43074"}

ADJACENT_AREA_ZIPS == {"43201", "43203", "43204", "43205", "43206", "43207",
    "43209", "43210", "43211", "43212", "43213", "43215", "43217", "43219",
    "43222", "43223", "43224", "43227", "43228", "43229", "43231", "43232",
    "43235", "43240"}

get_neighborhood_type(zip_code) ==
    IF zip_code \in PRIMARY_SERVICE_ZIPS THEN "primary"
    ELSE IF zip_code \in ADJACENT_AREA_ZIPS THEN "adjacent"
    ELSE "other"

DEFAULT_CONFIG == [
    market_value_multiplier |-> 110,
    hot_threshold |-> 80,
    warm_threshold |-> 50,
    min_years_owned |-> 300,
    min_equity |-> 30000,
    target_price_min |-> 200000,
    target_price_max |-> 750000,
    weight_years_owned |-> 25,
    weight_equity_gain |-> 25,
    weight_neighborhood_turnover |-> 15,
    weight_owner_occupied |-> 10,
    weight_price_tier |-> 15,
    weight_home_age |-> 10]

-----------------------------------------------------------------------------
(* Sub-scores *)

\* faulty variant: the sweet spot starts a year early
calculate_years_owned_score_early(years_owned) ==
    IF years_owned < 0 THEN 0
    ELSE IF years_owned < 200 THEN 10
    ELSE IF years_owned < 400 THEN 40
    ELSE IF years_owned < 600 THEN 80
    ELSE IF years_owned < 1000 THEN 100
    ELSE IF years_owned < 1500 THEN 70
    ELSE IF years_owned < 2000 THEN 50
    ELSE 40

calculate_years_owned_score(years_owned) ==
    IF years_owned < 0 THEN 0
    ELSE IF years_owned < 200 THEN 10
    ELSE IF years_owned < 400 THEN 40
    ELSE IF years_owned < 700 THEN 80
    ELSE IF years_owned < 1000 THEN 100
    ELSE IF years_owned < 1500 THEN 70
    ELSE IF years_owned < 2000 THEN 50
    ELSE 40

calculate_equity_gain_score(equity_gain_pct) ==
    IF equity_gain_pct < 0 THEN 10
    ELSE IF equity_gain_pct < 1000 THEN 10
    ELSE IF equity_gain_pct < 2500 THEN 40
    ELSE IF equity_gain_pct < 5000 THEN 70
    ELSE IF equity_gain_pct <= 10000 THEN 100
    ELSE 85

\* faulty variant: a rate of exactly 12 falls in the last step
calculate_neighborhood_turnover_score_strict(zip_code, stats) ==
    IF zip_code \notin DOMAIN stats THEN 50
    ELSE LET turnover_rate == stats[zip_code].turnover_rate_12mo
         IN  IF turnover_rate < 300 THEN 30
             ELSE IF turnover_rate < 500 THEN 50
             ELSE IF turnover_rate < 800 THEN 75
             ELSE IF turnover_rate < 1200 THEN 100
             ELSE 90

calculate_neighborhood_turnover_score(zip_code, stats) ==
    IF zip_code \notin DOMAIN stats THEN 50
    ELSE LET turnover_rate == stats[zip_code].turnover_rate_12mo
         IN  IF turnover_rate < 300 THEN 30
             ELSE IF turnover_rate < 500 THEN 50
             ELSE IF turnover_rate < 800 THEN 75
             ELSE IF turnover_rate <= 1200 THEN 100
             ELSE 90

calculate_owner_occupied_score(is_owner_occupied) ==
    IF is_owner_occupied THEN 70 ELSE 90

calculate_price_tier_score(market_value, cfg) ==
    IF market_value < cfg.target_price_min THEN 50
    ELSE IF market_value <= cfg.target_price_max THEN 100
    ELSE 60

\* faulty variant: a home younger than 5 years scores 20
calculate_home_age_score_new(year_built) ==
    IF year_built.t = "blank" \/ year_built.v <= 0 THEN 50
    ELSE LET age == CurrentYear - year_built.v
         IN  IF age < 5 THEN 20
             ELSE IF age < 15 THEN 70
             ELSE IF age < 30 THEN 90
             ELSE IF age < 50 THEN 80
             ELSE 60

\* year_built is Blank for None
calculate_home_age_score(year_built) ==
    IF year_built.t = "blank" \/ year_built.v <= 0 THEN 50
    ELSE LET age == CurrentYear - year_built.v
         IN  IF age < 5 THEN 40
             ELSE IF age < 15 THEN 70
             ELSE IF age < 30 THEN 90
             ELSE IF age < 50 THEN 80
             ELSE 60

\* is_owner_occupied: a string from the sheet is true iff lower() == 'true';
\* the empty string is falsy
OwnerOccupiedFlag(s) == s \in {"TRUE", "True", "true"}

\* faulty variant: the clamp is missing
Clamp100_unclamped(x) == x

Clamp100(x) == Min(100, Max(0, x))

calculate_propensity_score(prop, cfg, stats) ==
    LET yo == FloatOrZero(prop.years_owned)
        eg == FloatOrZero(prop.equity_gain_pct)
        mv == FloatOrZero(prop.estimated_market_value)
        yb == prop.year_built
    IN  IF ~yo.ok \/ ~eg.ok \/ ~mv.ok \/ yb.t = "bad" THEN Raise
        ELSE LET score ==
                   calculate_years_owned_score(yo.val) * cfg.weight_years_owned
                 + calculate_equity_gain_score(eg.val) * cfg.weight_equity_gain
                 + calculate_neighborhood_turnover_score(prop.zip, stats)
                       * cfg.weight_neighborhood_turnover
                 + calculate_owner_occupied_score(
                       OwnerOccupiedFlag(prop.is_owner_occupied))
                       * cfg.weight_owner_occupied
                 + calculate_price_tier_score(mv.val, cfg) * cfg.weight_price_tier
                 + calculate_home_age_score(yb) * cfg.weight_home_age
             IN  Ok(Clamp100(RoundHalfEven(score, 100)))

EquityFit(equity) ==
    IF equity < 50000 THEN 40
    ELSE IF equity < 100000 THEN 70
    ELSE IF equity < 200000 THEN 90
    ELSE 100

NeighborhoodFit(zip_code) ==
    LET neighborhood_type == get_neighborhood_type(zip_code)
    IN  IF neighborhood_type = "primary" THEN 100
        ELSE IF neighborhood_type = "adjacent" THEN 70
        ELSE 40

\* faulty variant: the price tier is weighted by the configured weight_price_tier
\* plus 10, which is 25 under the default weights only
calculate_td_fit_score_configured(prop, cfg) ==
    LET mv == FloatOrZero(prop.estimated_market_value)
        eq == FloatOrZero(prop.estimated_equity)
    IN  IF ~mv.ok \/ ~eq.ok THEN Raise
        ELSE LET total_score ==
                   calculate_price_tier_score(mv.val, cfg) * (cfg.weight_price_tier + 10)
                 + EquityFit(eq.val) * 35
                 + (IF OwnerOccupiedFlag(prop.is_owner_occupied) THEN 100 ELSE 60) * 20
                 + NeighborhoodFit(prop.zip) * 20
             IN  Ok(Clamp100(RoundHalfEven(total_score, 100)))

calculate_td_fit_score(prop, cfg) ==
    LET mv == FloatOrZero(prop.estimated_market_value)
        eq == FloatOrZero(prop.estimated_equity)
    IN  IF ~mv.ok \/ ~eq.ok THEN Raise
        ELSE LET total_score ==
                   calculate_price_tier_score(mv.val, cfg) * 25
                 + EquityFit(eq.val) * 35
                 + (IF OwnerOccupiedFlag(prop.is_owner_occupied) THEN 100 ELSE 60) * 20
                 + NeighborhoodFit(prop.zip) * 20
             IN  Ok(Clamp100(RoundHalfEven(total_score, 100)))

\* faulty variant: strict comparisons against the thresholds
determine_priority_tier_strict(propensity_score, cfg) ==
    IF propensity_score > cfg.hot_threshold THEN "HOT"
    ELSE IF propensity_score > cfg.warm_threshold THEN "WARM"
    ELSE "COLD"

determine_priority_tier(propensity_score, cfg) ==
    IF propensity_score >= cfg.hot_threshold THEN "HOT"
    ELSE IF propensity_score >= cfg.warm_threshold THEN "WARM"
    ELSE "COLD"

\* faulty variant: the floor applies only when both minimums are missed
BelowMinimums_both(years_owned, equity, cfg) ==
    years_owned < cfg.min_years_owned /\ equity < cfg.min_equity

\* the eligibility floor of score_properties
BelowMinimums(years_owned, equity, cfg) ==
    years_owned < cfg.min_years_owned \/ equity < cfg.min_equity

\* datetime.now().isoformat(): an opaque stamp
NowStamp == "now"

\* faulty variant: the tier is taken from the propensity_score the record carried
\* before this call
ScoreOne_stale_tier(prop, cfg, stats) ==
    LET yo == FloatOrZero(prop.years_owned)
        eq == FloatOrZero(prop.estimated_equity)
        ps == calculate_propensity_score(prop, cfg, stats)
        tf == calculate_td_fit_score(prop, cfg)
    IN  IF ~yo.ok \/ ~eq.ok \/ ~ps.ok \/ ~tf.ok THEN [ok |-> FALSE, rec |-> prop]
        ELSE LET tier0 == determine_priority_tier(
                              FloatOrZero(prop.propensity_score).val, cfg)
                 tier == IF BelowMinimums(yo.val, eq.val, cfg) THEN "COLD" ELSE tier0
             IN  [ok |-> TRUE,
                  rec |-> [prop EXCEPT !.propensity_score = Num(ps.val),
                                       !.td_fit_score = Num(tf.val),
                                       !.priority_tier = tier,
                                       !.last_updated = NowStamp]]

\* one iteration of the loop of score_properties: the updated record, or a raise
ScoreOne(prop, cfg, stats) ==
    LET yo == FloatOrZero(prop.years_owned)
        eq == FloatOrZero(prop.estimated_equity)
        ps == calculate_propensity_score(prop, cfg, stats)
        tf == calculate_td_fit_score(prop, cfg)
    IN  IF ~yo.ok \/ ~eq.ok \/ ~ps.ok \/ ~tf.ok THEN [ok |-> FALSE, rec |-> prop]
        ELSE LET tier0 == determine_priority_tier(ps.val, cfg)
                 tier == IF BelowMinimums(yo.val, eq.val, cfg) THEN "COLD" ELSE tier0
             IN  [ok |-> TRUE,
                  rec |-> [prop EXCEPT !.propensity_score = Num(ps.val),
                                       !.td_fit_score = Num(tf.val),
                                       !.priority_tier = tier,
                                       !.last_updated = NowStamp]]

\* the error string score_properties appends for a record
ScoringError(prop) == <<"Scoring failed for", prop.parcel_id>>

RECURSIVE ScoreLoop(_, _, _, _)
RECURSIVE ScoreLoop_break(_, _, _, _)
RECURSIVE ScoreLoop_cleared(_, _, _, _)
\* faulty variant: a record that fails loses the scores it carried
ScoreLoop_cleared(i, acc, cfg, stats) ==
    IF i > Len(acc.props) THEN acc
    ELSE LET r == ScoreOne(acc.props[i], cfg, stats)
         IN  ScoreLoop_cleared(i + 1,
                 IF r.ok
                 THEN [acc EXCEPT !.props[i] = r.rec,
                                  !.scored = Append(acc.scored, r.rec)]
                 ELSE [acc EXCEPT !.props[i].propensity_score = Blank,
                                  !.props[i].td_fit_score = Blank,
                                  !.props[i].priority_tier = "",
                                  !.errs = Append(acc.errs, ScoringError(acc.props[i]))],
                 cfg, stats)

\* the loop of score_properties from index i on; acc = [props, scored, errs]
ScoreLoop(i, acc, cfg, stats) ==
    IF i > Len(acc.props) THEN acc
    ELSE LET r == ScoreOne(acc.props[i], cfg, stats)
         IN  ScoreLoop(i + 1,
                 IF r.ok
                 THEN [acc EXCEPT !.props[i] = r.rec,
                                  !.scored = Append(acc.scored, r.rec)]
                 ELSE [acc EXCEPT !.errs = Append(acc.errs, ScoringError(acc.props[i]))],
                 cfg, stats)

\* faulty variant: the loop ends at the first record that fails
ScoreLoop_break(i, acc, cfg, stats) ==
    IF i > Len(acc.props) THEN acc
    ELSE LET r == ScoreOne(acc.props[i], cfg, stats)
         IN  IF r.ok
             THEN ScoreLoop_break(i + 1,
                      [acc EXCEPT !.props[i] = r.rec,
                                  !.scored = Append(acc.scored, r.rec)],
                      cfg, stats)
             ELSE [acc EXCEPT !.errs = Append(acc.errs, ScoringError(acc.props[i]))]

score_properties_break(props, cfg, stats) ==
    ScoreLoop_break(1, [props |-> props, scored |-> <<>>, errs |-> <<>>], cfg, stats)

\* score_properties(props): the batch as mutated in place, the returned list,
\* and the strings appended to self.errors
score_properties(props, cfg, stats) ==
    ScoreLoop(1, [props |-> props, scored |-> <<>>, errs |-> <<>>], cfg, stats)

-----------------------------------------------------------------------------
(* Neighborhood aggregation *)

\* purchase_date counts as a recent sale: parse_date gave a date and
\* (current_date - purchase_date).days <= 365
IsRecentSale(purchase_date) ==
    purchase_date.t = "num" /\ Today - purchase_date.v <= 365

\* the records of a batch that calculate_neighborhood_stats puts in group z
ZipGroup(props, z) == SelectSeq(props, LAMBDA p : p.zip = z)

RECURSIVE Accumulate(_, _)
\* the sums and counts of one group, from index i of the group on
Accumulate(group, i) ==
    IF i > Len(group)
    THEN [total_properties |-> 0, years_owned_sum |-> 0, equity_sum |-> 0,
          propensity_score_sum |-> 0, hot_count |-> 0, warm_count |-> 0,
          recent_sales |-> 0]
    ELSE LET p == group[i]
             rest == Accumulate(group, i + 1)
         IN  [total_properties |-> rest.total_properties + 1,
              years_owned_sum |-> rest.years_owned_sum + FloatOrZero(p.years_owned).val,
              equity_sum |-> rest.equity_sum + FloatOrZero(p.estimated_equity).val,
              propensity_score_sum |->
                  rest.propensity_score_sum + FloatOrZero(p.propensity_score).val,
              hot_count |-> rest.hot_count + (IF p.priority_tier = "HOT" THEN 1 ELSE 0),
              warm_count |-> rest.warm_count + (IF p.priority_tier = "WARM" THEN 1 ELSE 0),
              recent_sales |-> rest.recent_sales
                  + (IF IsRecentSale(p.purchase_date) THEN 1 ELSE 0)]

\* faulty variant: the records without a ZIP form a group
NonEmptyZips_all(props) == {props[i].zip : i \in 1..Len(props)}

NonEmptyZips(props) == {props[i].zip : i \in 1..Len(props)} \ {""}

\* one entry of the result of calculate_neighborhood_stats
StatsEntry(z, acc) ==
    [neighborhood |-> z,
     total_properties |-> acc.total_properties,
     avg_years_owned |-> RoundHalfEven(acc.years_owned_sum, acc.total_properties),
     avg_equity |-> RoundHalfEven(acc.equity_sum * 100, acc.total_properties),
     avg_propensity_score |->
         IF acc.propensity_score_sum # 0
         THEN RoundHalfEven(acc.propensity_score_sum * 100, acc.total_properties)
         ELSE 0,
     hot_lead_count |-> acc.hot_count,
     warm_lead_count |-> acc.warm_count,
     turnover_rate_12mo |-> RoundHalfEven(acc.recent_sales * 10000, acc.total_properties),
     last_updated |-> NowStamp]

\* float() of years_owned or estimated_equity rejects a record with a ZIP
StatsRaises(props) ==
    \E i \in 1..Len(props) :
        /\ props[i].zip # ""
        /\ \/ props[i].years_owned.t = "bad"
           \/ props[i].estimated_equity.t = "bad"
           \/ props[i].propensity_score.t = "bad"

calculate_neighborhood_stats(props) ==
    [z \in NonEmptyZips(props) |-> StatsEntry(z, Accumulate(ZipGroup(props, z), 1))]

-----------------------------------------------------------------------------
(* Inputs *)

PidOf == <<"P1", "P2", "P3", "P4", "P5", "P6", "P7", "P8">>

Rec(zip, yo, eg, eq, mv, oo, yb, pd) ==
    [parcel_id |-> "", zip |-> zip, years_owned |-> yo, equity_gain_pct |-> eg,
     estimated_equity |-> eq, estimated_market_value |-> mv,
     is_owner_occupied |-> oo, year_built |-> yb, purchase_date |-> pd,
     propensity_score |-> Blank, td_fit_score |-> Blank, priority_tier |-> "",
     last_updated |-> ""]

\* parcel ids follow the row position
WithIds(props) == [i \in 1..Len(props) |-> [props[i] EXCEPT !.parcel_id = PidOf[i]]]

SeqsUpTo(S, n) == UNION {[1..k -> S] : k \in 0..n}

HotRec == Rec("43081", Num(800), Num(6000), Num(150000), Num(330000), "FALSE",
              Num(2006), Num(Today - 2900))

ScoreRecords ==
    { HotRec,
      [HotRec EXCEPT !.years_owned = Num(600), !.equity_gain_pct = Num(4000),
                     !.estimated_equity = Num(80000)],
      [HotRec EXCEPT !.years_owned = Num(100)],
      [HotRec EXCEPT !.years_owned = Num(300), !.zip = "43201"],
      [HotRec EXCEPT !.years_owned = Num(2500), !.equity_gain_pct = Num(500),
                     !.estimated_market_value = Num(150000), !.zip = "99999",
                     !.is_owner_occupied = "TRUE", !.year_built = Blank],
      [HotRec EXCEPT !.estimated_equity = Num(20000)],
      [HotRec EXCEPT !.estimated_equity = Num(30000), !.is_owner_occupied = "True"],
      [HotRec EXCEPT !.years_owned = Blank, !.zip = ""],
      [HotRec EXCEPT !.years_owned = Num(-100), !.equity_gain_pct = Num(-500),
                     !.estimated_market_value = Num(800000)],
      [HotRec EXCEPT !.years_owned = Bad],
      [HotRec EXCEPT !.equity_gain_pct = Bad],
      [HotRec EXCEPT !.estimated_market_value = Bad],
      [HotRec EXCEPT !.estimated_equity = Bad],
      [HotRec EXCEPT !.year_built = Bad],
      [HotRec EXCEPT !.year_built = Bad, !.propensity_score = Num(72),
                     !.td_fit_score = Num(88), !.priority_tier = "WARM",
                     !.last_updated = "earlier"],
      [HotRec EXCEPT !.years_owned = Num(100), !.equity_gain_pct = Num(500),
                     !.estimated_market_value = Num(150000), !.zip = "43201",
                     !.is_owner_occupied = "TRUE", !.year_built = Num(2024)] }

ScoreConfigs ==
    { DEFAULT_CONFIG,
      [DEFAULT_CONFIG EXCEPT !.hot_threshold = 98, !.warm_threshold = 76],
      [DEFAULT_CONFIG EXCEPT !.hot_threshold = 50, !.warm_threshold = 80],
      [DEFAULT_CONFIG EXCEPT !.weight_years_owned = 0, !.weight_equity_gain = 100,
                             !.min_years_owned = 0, !.min_equity = 0],
      [DEFAULT_CONFIG EXCEPT !.weight_years_owned = -25, !.weight_equity_gain = -50,
                             !.weight_price_tier = -15],
      [DEFAULT_CONFIG EXCEPT !.weight_years_owned = 50, !.weight_equity_gain = 50,
                             !.weight_price_tier = 60] }

StatsOf(z, rate) ==
    [x \in {z} |-> [neighborhood |-> z, total_properties |-> 30,
                    avg_years_owned |-> 650, avg_equity |-> 9000000,
                    avg_propensity_score |-> 0, hot_lead_count |-> 0,
                    warm_lead_count |-> 0, turnover_rate_12mo |-> rate,
                    last_updated |-> NowStamp]]

NoStats == [z \in {} |-> 0]

ScoreStats ==
    { NoStats, StatsOf("43081", 1000), StatsOf("43081", 200), StatsOf("43081", 600),
      StatsOf("43081", 1000) @@ StatsOf("43201", 200) }

NoSummary == [status |-> "none", records_processed |-> 0, hot_leads |-> 0,
              warm_leads |-> 0, neighborhoods |-> 0, errors |-> <<>>]

NoLog == [status |-> "none", records_processed |-> 0, errors |-> <<>>]

\* None
NoneValue == [t |-> "none"]

\* the ingest utilities have not been called
UtilIdle ==
    /\ raw_data = NoneValue
    /\ record = NoneValue
    /\ validation = NoneValue
    /\ result = NoneValue
    /\ addresses = NoneValue
    /\ normalized = NoneValue
    /\ owner_occupied = NoneValue

Tabs == [master |-> master, hot_tab |-> hot_tab, warm_tab |-> warm_tab,
         stats_tab |-> stats_tab]

-----------------------------------------------------------------------------
(* score_properties called on an engine (ScoreSpec) *)

InitScore ==
    /\ config \in ScoreConfigs
    /\ neighborhood_stats \in ScoreStats
    /\ properties \in {WithIds(s) : s \in SeqsUpTo(ScoreRecords, MaxScoreBatch)}
    /\ errors = <<>>
    /\ has_client = FALSE
    /\ store_config = DEFAULT_CONFIG
    /\ master = <<>>
    /\ hot_tab = <<>>
    /\ warm_tab = <<>>
    /\ stats_tab = <<>>
    /\ run_log = NoLog
    /\ pc = "score"
    /\ dry_run = TRUE
    /\ scored_properties = <<>>
    /\ hot_leads = <<>>
    /\ warm_leads = <<>>
    /\ write_error = FALSE
    /\ summary = NoSummary
    /\ calls = {}
    /\ before = Tabs
    /\ UtilIdle

\* scored_properties = self.score_properties(properties)
ScoreProperties ==
    /\ pc = "score"
    /\ LET r == score_properties(properties, config, neighborhood_stats)
       IN  /\ properties' = r.props
           /\ scored_properties' = r.scored
           /\ errors' = errors \o r.errs
    /\ pc' = "pass2"
    /\ UNCHANGED <<config, neighborhood_stats, has_client, store_config, master,
                   hot_tab, warm_tab, stats_tab, run_log, dry_run, hot_leads,
                   warm_leads, write_error, summary, calls, before>>
    /\ UNCHANGED utilVars

\* a second call of score_properties on the batch the first call left behind
ScoreAgain ==
    /\ pc = "pass2"
    /\ LET r == score_properties(properties, config, neighborhood_stats)
       IN  /\ properties' = r.props
           /\ scored_properties' = r.scored
           /\ errors' = errors \o r.errs
    /\ pc' = "rescored"
    /\ UNCHANGED <<config, neighborhood_stats, has_client, store_config, master,
                   hot_tab, warm_tab, stats_tab, run_log, dry_run, hot_leads,
                   warm_leads, write_error, summary, calls, before>>
    /\ UNCHANGED utilVars

NextScore == ScoreProperties \/ ScoreAgain

ScoreSpec == InitScore /\ [][NextScore]_vars

-----------------------------------------------------------------------------
(* Neighborhood stats of one ZIP and the scores that follow (TurnoverSpec) *)

\* the sizes of the ZIP
ZipTotals == {20, 25, 30}

\* a record of the ZIP, bought within the last year or long before
ZipRec(recent) ==
    [HotRec EXCEPT !.estimated_equity = Num(80000),
                   !.purchase_date = Num(Today - (IF recent THEN 100 ELSE 2900))]

\* total records of one ZIP, the first k of them bought within the last year,
\* and after them the given records without a ZIP
ZipBatch(total, k, others) ==
    LET batch == [i \in 1..total |-> ZipRec(i <= k)]
                 \o [i \in 1..others |-> [ZipRec(FALSE) EXCEPT !.zip = ""]]
    IN  [i \in 1..Len(batch) |-> [batch[i] EXCEPT !.parcel_id = ToString(i)]]

\* every number of recent purchases in a ZIP of those sizes, and up to five
\* in a ZIP of fifty
ZipBatches ==
    { ZipBatch(total, k, others) : total \in ZipTotals, k \in 0..30, others \in 0..1 }
    \cup { ZipBatch(50, k, others) : k \in 0..5, others \in 0..1 }

\* purchase dates around the year before the call: within it, on its two
\* edges, after the call, absent ('') and not a date
PurchaseDates ==
    { Num(Today - 100), Num(Today - 365), Num(Today - 366), Num(Today),
      Num(Today + 1), Num(Today + 400), Blank, Bad }

\* one or two records of one ZIP with those purchase dates
DatedBatches ==
    { [i \in 1..Len(ds) |->
          [ZipRec(FALSE) EXCEPT !.purchase_date = ds[i], !.parcel_id = ToString(i)]] :
      ds \in [1..1 -> PurchaseDates] \cup [1..2 -> PurchaseDates] }

\* only the neighborhood turnover counts, and no record is held back
TurnoverOnly ==
    [DEFAULT_CONFIG EXCEPT !.weight_years_owned = 0, !.weight_equity_gain = 0,
                           !.weight_neighborhood_turnover = 100,
                           !.weight_owner_occupied = 0, !.weight_price_tier = 0,
                           !.weight_home_age = 0, !.min_years_owned = 0,
                           !.min_equity = 0]

InitTurnover ==
    /\ config = TurnoverOnly
    /\ neighborhood_stats = NoStats
    /\ properties \in ZipBatches \cup DatedBatches
    /\ errors = <<>>
    /\ has_client = FALSE
    /\ store_config = DEFAULT_CONFIG
    /\ master = <<>>
    /\ hot_tab = <<>>
    /\ warm_tab = <<>>
    /\ stats_tab = <<>>
    /\ run_log = NoLog
    /\ pc = "stats"
    /\ dry_run = TRUE
    /\ scored_properties = <<>>
    /\ hot_leads = <<>>
    /\ warm_leads = <<>>
    /\ write_error = FALSE
    /\ summary = NoSummary
    /\ calls = {}
    /\ before = Tabs
    /\ UtilIdle

\* self.neighborhood_stats = self.calculate_neighborhood_stats(properties)
CalculateStats ==
    /\ pc = "stats"
    /\ neighborhood_stats' = calculate_neighborhood_stats(properties)
    /\ pc' = "score"
    /\ UNCHANGED <<config, errors, has_client, store_config, master, hot_tab,
                   warm_tab, stats_tab, run_log, dry_run, properties,
                   scored_properties, hot_leads, warm_leads, write_error, summary,
                   calls, before>>
    /\ UNCHANGED utilVars

NextTurnover == CalculateStats \/ ScoreProperties

TurnoverSpec == InitTurnover /\ [][NextTurnover]_vars

-----------------------------------------------------------------------------
(* ScoringEngine.run on a spreadsheet (Spec) *)

RunRecords ==
    { HotRec,
      [HotRec EXCEPT !.years_owned = Num(600), !.estimated_equity = Num(80000),
                     !.zip = "43201"],
      [HotRec EXCEPT !.years_owned = Num(2500), !.equity_gain_pct = Num(500),
                     !.is_owner_occupied = "TRUE", !.year_built = Blank,
                     !.purchase_date = Num(Today - 100)],
      [HotRec EXCEPT !.zip = ""],
      [HotRec EXCEPT !.year_built = Bad],
      [HotRec EXCEPT !.years_owned = Bad] }

\* a sheet on which every row fails to score (its year_built is not a number)
FailingBatch == WithIds([i \in 1..MaxFailing |-> [HotRec EXCEPT !.year_built = Bad]])

\* what the Config tab may hold: all settings, or only some of them
RunConfigs ==
    { DEFAULT_CONFIG,
      [hot_threshold |-> 95, warm_threshold |-> 80, weight_home_age |-> 20,
       daily_sms_limit |-> 100] }

Init ==
    /\ config = DEFAULT_CONFIG
    /\ neighborhood_stats = NoStats
    /\ errors = <<>>
    /\ has_client \in BOOLEAN
    /\ store_config \in RunConfigs
    /\ master \in {WithIds(s) : s \in SeqsUpTo(RunRecords, MaxBatch)} \cup {FailingBatch}
    /\ hot_tab = <<>>
    /\ warm_tab = <<>>
    /\ stats_tab = <<>>
    /\ run_log = NoLog
    /\ pc = "idle"
    /\ dry_run = FALSE
    /\ properties = <<>>
    /\ scored_properties = <<>>
    /\ hot_leads = <<>>
    /\ warm_leads = <<>>
    /\ write_error = FALSE
    /\ summary = NoSummary
    /\ calls = {}
    /\ before = Tabs
    /\ UtilIdle

\* load_config with get_config returning sheets_config
MergeConfig(cfg, sheets_config) ==
    [k \in DOMAIN cfg |->
        IF k \in DOMAIN sheets_config THEN sheets_config[k] ELSE cfg[k]]

WriteError == <<"Failed to write to Sheets", "">>

\* faulty variant: no truncation
FirstN_untruncated(s, n) == s

FirstN(s, n) == SubSeq(s, 1, Min(n, Len(s)))

\* run() from its entry to the first aggregation pass: client set-up,
\* load_config, read_sheet, and the early return on an empty batch
RunStart ==
    /\ pc \in {"idle", "returned", "raised"}
    /\ Len(errors) <= MaxCarriedErrors
    /\ \E dr \in BOOLEAN, client_ok \in BOOLEAN, config_ok \in BOOLEAN,
          read_ok \in BOOLEAN :
        LET client == has_client \/ (~dr /\ client_ok)
            cfg == IF client /\ config_ok
                   THEN MergeConfig(config, store_config) ELSE config
            props == IF client THEN master ELSE <<>>
        IN  /\ dry_run' = dr
            /\ scored_properties' = <<>>
            /\ hot_leads' = <<>>
            /\ warm_leads' = <<>>
            /\ write_error' = FALSE
            /\ calls' = IF ~client THEN {}
                         ELSE IF config_ok THEN {"get_config"}
                         ELSE {"get_config raised"}
            /\ run_log' = NoLog
            /\ before' = Tabs
            /\ \/ \* get_sheets_client() raises
                  /\ ~has_client /\ ~dr /\ ~client_ok
                  /\ pc' = "raised"
                  /\ summary' = NoSummary
                  /\ properties' = <<>>
                  /\ UNCHANGED <<config, has_client>>
               \/ \* read_sheet raises
                  /\ client /\ ~read_ok
                  /\ has_client' = client
                  /\ config' = cfg
                  /\ pc' = "raised"
                  /\ summary' = NoSummary
                  /\ properties' = <<>>
               \/ \* no properties: return {'status': 'success', 'records_processed': 0}
                  /\ (has_client \/ dr \/ client_ok)
                  /\ (client => read_ok)
                  /\ props = <<>>
                  /\ has_client' = client
                  /\ config' = cfg
                  /\ pc' = "returned"
                  /\ summary' = [NoSummary EXCEPT !.status = "success"]
                  /\ properties' = <<>>
               \/ /\ client /\ read_ok
                  /\ props # <<>>
                  /\ has_client' = client
                  /\ config' = cfg
                  /\ properties' = props
                  /\ pc' = "pass1"
                  /\ summary' = NoSummary
    /\ UNCHANGED <<neighborhood_stats, errors, store_config, master, hot_tab,
                   warm_tab, stats_tab>>
    /\ UNCHANGED utilVars

\* self.neighborhood_stats = self.calculate_neighborhood_stats(properties)
FirstPass ==
    /\ pc = "pass1"
    /\ IF StatsRaises(properties)
       THEN /\ pc' = "raised"
            /\ UNCHANGED neighborhood_stats
       ELSE /\ pc' = "score"
            /\ neighborhood_stats' = calculate_neighborhood_stats(properties)
    /\ UNCHANGED <<config, errors, has_client, store_config, master, hot_tab,
                   warm_tab, stats_tab, run_log, dry_run, properties,
                   scored_properties, hot_leads, warm_leads, write_error, summary,
                   calls, before>>
    /\ UNCHANGED utilVars

TierFilter(props, tier) == SelectSeq(props, LAMBDA p : p.priority_tier = tier)

\* faulty variant: the stats of the first pass are kept
SecondPass_stale ==
    /\ pc = "pass2"
    /\ hot_leads' = TierFilter(scored_properties, "HOT")
    /\ warm_leads' = TierFilter(scored_properties, "WARM")
    /\ pc' = IF ~dry_run /\ has_client THEN "update_master" ELSE "log"
    /\ UNCHANGED <<config, neighborhood_stats, errors, has_client, store_config,
                   master, hot_tab, warm_tab, stats_tab, run_log, dry_run,
                   properties, scored_properties, write_error, summary, calls,
                   before>>
    /\ UNCHANGED utilVars

\* the second aggregation pass and the split into tiers
SecondPass ==
    /\ pc = "pass2"
    /\ neighborhood_stats' = calculate_neighborhood_stats(scored_properties)
    /\ hot_leads' = TierFilter(scored_properties, "HOT")
    /\ warm_leads' = TierFilter(scored_properties, "WARM")
    /\ pc' = IF ~dry_run /\ has_client THEN "update_master" ELSE "log"
    /\ UNCHANGED <<config, errors, has_client, store_config, master, hot_tab,
                   warm_tab, stats_tab, run_log, dry_run, properties,
                   scored_properties, write_error, summary, calls, before>>
    /\ UNCHANGED utilVars

\* faulty variant: no key matches, every row is appended as a new one
UpdateRows_append(sheet, rows) == sheet \o rows

\* update_rows: every sheet row whose parcel_id matches a given row is
\* overwritten by it, and the rows that match none are appended
UpdateRows(sheet, rows) ==
    LET keys == {sheet[i].parcel_id : i \in 1..Len(sheet)} \ {""}
        updated == [i \in 1..Len(sheet) |->
            IF /\ sheet[i].parcel_id # ""
               /\ \E k \in 1..Len(rows) : rows[k].parcel_id = sheet[i].parcel_id
            THEN rows[CHOOSE k \in 1..Len(rows) :
                        /\ rows[k].parcel_id = sheet[i].parcel_id
                        /\ \A l \in 1..Len(rows) :
                              rows[l].parcel_id = sheet[i].parcel_id => l <= k]
            ELSE sheet[i]]
    IN  updated \o SelectSeq(rows, LAMBDA r : r.parcel_id \notin keys)

\* the except branch of run(): the error is recorded and the writes end
WriteFails ==
    /\ errors' = Append(errors, WriteError)
    /\ write_error' = TRUE
    /\ pc' = "log"

UpdateMaster ==
    /\ pc = "update_master"
    /\ calls' = calls \cup {"update_rows"}
    /\ \/ /\ master' = UpdateRows(master, scored_properties)
          /\ pc' = "replace_hot"
          /\ UNCHANGED <<errors, write_error>>
       \/ /\ WriteFails
          /\ UNCHANGED master
    /\ UNCHANGED <<config, neighborhood_stats, has_client, store_config, hot_tab,
                   warm_tab, stats_tab, run_log, dry_run, properties,
                   scored_properties, hot_leads, warm_leads, summary, before>>
    /\ UNCHANGED utilVars

RECURSIVE InsertDesc(_, _)
\* x goes behind every element whose propensity_score is at least its own
InsertDesc(sorted, x) ==
    IF sorted = <<>> THEN <<x>>
    ELSE IF Head(sorted).propensity_score.v >= x.propensity_score.v
         THEN <<Head(sorted)>> \o InsertDesc(Tail(sorted), x)
         ELSE <<x>> \o sorted

\* faulty variant: the leads are written in the order they were scored
SortedDesc_unsorted(leads) == leads

RECURSIVE SortedDesc(_)
\* sorted(leads, key=propensity_score, reverse=True): stable
SortedDesc(leads) ==
    IF leads = <<>> THEN <<>>
    ELSE InsertDesc(SortedDesc(SubSeq(leads, 1, Len(leads) - 1)), leads[Len(leads)])

RECURSIVE ZipOrder(_, _)
\* the ZIPs of the batch in the order the aggregation first meets them
ZipOrder(props, seen) ==
    IF props = <<>> THEN <<>>
    ELSE IF Head(props).zip = "" \/ Head(props).zip \in seen
         THEN ZipOrder(Tail(props), seen)
         ELSE <<Head(props).zip>> \o ZipOrder(Tail(props), seen \cup {Head(props).zip})

\* stats_list = list(self.neighborhood_stats.values())
StatsList(stats, props) ==
    LET order == ZipOrder(props, {})
    IN  [i \in 1..Len(order) |-> stats[order[i]]]

\* clear_sheet followed by write_sheet_from_dicts on one tab: what the tab
\* holds afterwards.  "early": clear_sheet raised before worksheet.clear();
\* "late": a call raised after the clear; "ok": both calls returned.
ReplaceResult(old, rows, outcome) ==
    IF outcome = "early" THEN old
    ELSE IF outcome = "late" THEN <<>>
    ELSE rows

Outcomes == {"early", "late", "ok"}

ReplaceHot ==
    /\ pc = "replace_hot"
    /\ calls' = calls \cup {"clear_sheet", "write_sheet_from_dicts"}
    /\ \E outcome \in Outcomes :
        /\ hot_tab' = ReplaceResult(hot_tab, SortedDesc(hot_leads), outcome)
        /\ IF outcome = "ok"
           THEN pc' = "replace_warm" /\ UNCHANGED <<errors, write_error>>
           ELSE WriteFails
    /\ UNCHANGED <<config, neighborhood_stats, has_client, store_config, master,
                   warm_tab, stats_tab, run_log, dry_run, properties,
                   scored_properties, hot_leads, warm_leads, summary, before>>
    /\ UNCHANGED utilVars

ReplaceWarm ==
    /\ pc = "replace_warm"
    /\ calls' = calls \cup {"clear_sheet", "write_sheet_from_dicts"}
    /\ \E outcome \in Outcomes :
        /\ warm_tab' = ReplaceResult(warm_tab, SortedDesc(warm_leads), outcome)
        /\ IF outcome = "ok"
           THEN pc' = "replace_stats" /\ UNCHANGED <<errors, write_error>>
           ELSE WriteFails
    /\ UNCHANGED <<config, neighborhood_stats, has_client, store_config, master,
                   hot_tab, stats_tab, run_log, dry_run, properties,
                   scored_properties, hot_leads, warm_leads, summary, before>>
    /\ UNCHANGED utilVars

ReplaceStats ==
    /\ pc = "replace_stats"
    /\ calls' = calls \cup {"clear_sheet", "write_sheet_from_dicts"}
    /\ \E outcome \in Outcomes :
        /\ stats_tab' = ReplaceResult(stats_tab,
                            StatsList(neighborhood_stats, scored_properties), outcome)
        /\ IF outcome = "ok"
           THEN pc' = "log" /\ UNCHANGED <<errors, write_error>>
           ELSE WriteFails
    /\ UNCHANGED <<config, neighborhood_stats, has_client, store_config, master,
                   hot_tab, warm_tab, run_log, dry_run, properties,
                   scored_properties, hot_leads, warm_leads, summary, before>>
    /\ UNCHANGED utilVars

RunStatus(errs) == IF errs = <<>> THEN "success" ELSE "partial"

\* the end of run(): status, log_run, the summary
LogAndReturn ==
    /\ pc = "log"
    /\ LET status == RunStatus(errors)
           error_summary == FirstN(errors, 5)
       IN  IF has_client /\ ~dry_run
           THEN /\ calls' = calls \cup {"log_run"}
                /\ \/ /\ run_log' = [status |-> status,
                                     records_processed |-> Len(scored_properties),
                                     errors |-> error_summary]
                      /\ pc' = "returned"
                      /\ summary' = [status |-> status,
                                     records_processed |-> Len(scored_properties),
                                     hot_leads |-> Len(hot_leads),
                                     warm_leads |-> Len(warm_leads),
                                     neighborhoods |-> Cardinality(DOMAIN neighborhood_stats),
                                     errors |-> errors]
                   \/ \* log_run raises
                      /\ pc' = "raised"
                      /\ UNCHANGED <<run_log, summary>>
           ELSE /\ pc' = "returned"
                /\ summary' = [status |-> status,
                               records_processed |-> Len(scored_properties),
                               hot_leads |-> Len(hot_leads),
                               warm_leads |-> Len(warm_leads),
                               neighborhoods |-> Cardinality(DOMAIN neighborhood_stats),
                               errors |-> errors]
                /\ UNCHANGED <<run_log, calls>>
    /\ UNCHANGED <<config, neighborhood_stats, errors, has_client, store_config,
                   master, hot_tab, warm_tab, stats_tab, dry_run, properties,
                   scored_properties, hot_leads, warm_leads, write_error, before>>
    /\ UNCHANGED utilVars

Next ==
    \/ RunStart
    \/ FirstPass
    \/ ScoreProperties
    \/ SecondPass
    \/ UpdateMaster
    \/ ReplaceHot
    \/ ReplaceWarm
    \/ ReplaceStats
    \/ LogAndReturn

Spec == Init /\ [][Next]_vars

-----------------------------------------------------------------------------
(* Text (scripts/utils/address_utils.py).  A Python str is the sequence of  *)
(* its characters; None is PyNone.                                         *)

PyNone == <<"None">>

\* not x
Falsy(x) == x = PyNone \/ x = <<>>

\* str(x)
Str(x) == IF x = PyNone THEN <<"N", "o", "n", "e">> ELSE x

LowerLetters == <<"a", "b", "c", "d", "e", "f", "g", "h", "i", "j", "k", "l", "m", "n", "o", "p", "q", "r", "s", "t", "u", "v", "w", "x", "y", "z">>

UpperLetters == <<"A", "B", "C", "D", "E", "F", "G", "H", "I", "J", "K", "L", "M", "N", "O", "P", "Q", "R", "S", "T", "U", "V", "W", "X", "Y", "Z">>

Digits == {"0", "1", "2", "3", "4", "5", "6", "7", "8", "9"}

LetterIndex(c, letters) == CHOOSE i \in 1..Len(letters) : letters[i] = c

IsLower(c) == \E i \in 1..Len(LowerLetters) : LowerLetters[i] = c
IsUpper(c) == \E i \in 1..Len(UpperLetters) : UpperLetters[i] = c

\* faulty variant: the case is kept
Upper_kept(s) == s

\* str.upper, str.lower
Upper(s) ==
    [i \in 1..Len(s) |->
        IF IsLower(s[i]) THEN UpperLetters[LetterIndex(s[i], LowerLetters)] ELSE s[i]]

Lower(s) ==
    [i \in 1..Len(s) |->
        IF IsUpper(s[i]) THEN LowerLetters[LetterIndex(s[i], UpperLetters)] ELSE s[i]]

RECURSIVE LStrip(_)
LStrip(s) == IF s # <<>> /\ Head(s) = " " THEN LStrip(Tail(s)) ELSE s

RECURSIVE RStrip(_)
RStrip(s) ==
    IF s # <<>> /\ s[Len(s)] = " " THEN RStrip(SubSeq(s, 1, Len(s) - 1)) ELSE s

\* str.strip
Strip(s) == RStrip(LStrip(s))

\* the length of the first word of s, which does not start with a space
RECURSIVE WordLen(_)
WordLen(s) == IF s = <<>> \/ Head(s) = " " THEN 0 ELSE 1 + WordLen(Tail(s))

\* str.split(): the words between runs of whitespace
RECURSIVE Split(_)
Split(s) ==
    LET r == LStrip(s)
    IN  IF r = <<>> THEN <<>>
        ELSE <<SubSeq(r, 1, WordLen(r))>> \o Split(SubSeq(r, WordLen(r) + 1, Len(r)))

\* ' '.join(words)
RECURSIVE Join(_)
Join(words) ==
    IF words = <<>> THEN <<>>
    ELSE IF Len(words) = 1 THEN words[1]
    ELSE words[1] \o <<" ">> \o Join(Tail(words))

\* s[:n]
Prefix(s, n) == SubSeq(s, 1, Min(n, Len(s)))

\* s.split(',')[0]
RECURSIVE BeforeComma(_)
BeforeComma(s) ==
    IF s = <<>> \/ Head(s) = "," THEN <<>> ELSE <<Head(s)>> \o BeforeComma(Tail(s))

STREET_TYPE_MAP ==
    (<<"a", "v", "e", "n", "u", "e">> :> <<"A", "V", "E">>)
    @@ (<<"a", "v", "e">> :> <<"A", "V", "E">>)
    @@ (<<"a", "v">> :> <<"A", "V", "E">>)
    @@ (<<"b", "o", "u", "l", "e", "v", "a", "r", "d">> :> <<"B", "L", "V", "D">>)
    @@ (<<"b", "l", "v", "d">> :> <<"B", "L", "V", "D">>)
    @@ (<<"c", "i", "r", "c", "l", "e">> :> <<"C", "I", "R">>)
    @@ (<<"c", "i", "r">> :> <<"C", "I", "R">>)
    @@ (<<"c", "o", "u", "r", "t">> :> <<"C", "T">>)
    @@ (<<"c", "t">> :> <<"C", "T">>)
    @@ (<<"d", "r", "i", "v", "e">> :> <<"D", "R">>)
    @@ (<<"d", "r">> :> <<"D", "R">>)
    @@ (<<"d", "r", "v">> :> <<"D", "R">>)
    @@ (<<"h", "i", "g", "h", "w", "a", "y">> :> <<"H", "W", "Y">>)
    @@ (<<"h", "w", "y">> :> <<"H", "W", "Y">>)
    @@ (<<"l", "a", "n", "e">> :> <<"L", "N">>)
    @@ (<<"l", "n">> :> <<"L", "N">>)
    @@ (<<"p", "a", "r", "k", "w", "a", "y">> :> <<"P", "K", "W", "Y">>)
    @@ (<<"p", "k", "w", "y">> :> <<"P", "K", "W", "Y">>)
    @@ (<<"p", "k", "y">> :> <<"P", "K", "W", "Y">>)
    @@ (<<"p", "l", "a", "c", "e">> :> <<"P", "L">>)
    @@ (<<"p", "l">> :> <<"P", "L">>)
    @@ (<<"r", "o", "a", "d">> :> <<"R", "D">>)
    @@ (<<"r", "d">> :> <<"R", "D">>)
    @@ (<<"s", "q", "u", "a", "r", "e">> :> <<"S", "Q">>)
    @@ (<<"s", "q">> :> <<"S", "Q">>)
    @@ (<<"s", "t", "r", "e", "e", "t">> :> <<"S", "T">>)
    @@ (<<"s", "t">> :> <<"S", "T">>)
    @@ (<<"s", "t", "r">> :> <<"S", "T">>)
    @@ (<<"t", "e", "r", "r", "a", "c", "e">> :> <<"T", "E", "R">>)
    @@ (<<"t", "e", "r">> :> <<"T", "E", "R">>)
    @@ (<<"t", "e", "r", "r">> :> <<"T", "E", "R">>)
    @@ (<<"t", "r", "a", "i", "l">> :> <<"T", "R", "L">>)
    @@ (<<"t", "r", "l">> :> <<"T", "R", "L">>)
    @@ (<<"w", "a", "y">> :> <<"W", "A", "Y">>)

DIRECTION_MAP ==
    (<<"n", "o", "r", "t", "h">> :> <<"N">>)
    @@ (<<"n">> :> <<"N">>)
    @@ (<<"s", "o", "u", "t", "h">> :> <<"S">>)
    @@ (<<"s">> :> <<"S">>)
    @@ (<<"e", "a", "s", "t">> :> <<"E">>)
    @@ (<<"e">> :> <<"E">>)
    @@ (<<"w", "e", "s", "t">> :> <<"W">>)
    @@ (<<"w">> :> <<"W">>)
    @@ (<<"n", "o", "r", "t", "h", "e", "a", "s", "t">> :> <<"N", "E">>)
    @@ (<<"n", "e">> :> <<"N", "E">>)
    @@ (<<"n", "o", "r", "t", "h", "w", "e", "s", "t">> :> <<"N", "W">>)
    @@ (<<"n", "w">> :> <<"N", "W">>)
    @@ (<<"s", "o", "u", "t", "h", "e", "a", "s", "t">> :> <<"S", "E">>)
    @@ (<<"s", "e">> :> <<"S", "E">>)
    @@ (<<"s", "o", "u", "t", "h", "w", "e", "s", "t">> :> <<"S", "W">>)
    @@ (<<"s", "w">> :> <<"S", "W">>)

\* the apartment/unit indicators of normalize_address
UNIT_WORDS ==
    { <<"a", "p", "t">>,
      <<"a", "p", "a", "r", "t", "m", "e", "n", "t">>,
      <<"u", "n", "i", "t">>,
      <<"s", "u", "i", "t", "e">>,
      <<"s", "t", "e">>,
      <<"#">>,
      <<"l", "o", "t">> }

NEIGHBORHOOD_MAP ==
    (<<"4", "3", "0", "8", "1">> :> <<"W", "e", "s", "t", "e", "r", "v", "i", "l", "l", "e">>)
    @@ (<<"4", "3", "0", "8", "2">> :> <<"W", "e", "s", "t", "e", "r", "v", "i", "l", "l", "e">>)
    @@ (<<"4", "3", "0", "1", "6">> :> <<"D", "u", "b", "l", "i", "n">>)
    @@ (<<"4", "3", "0", "1", "7">> :> <<"D", "u", "b", "l", "i", "n">>)
    @@ (<<"4", "3", "0", "6", "5">> :> <<"P", "o", "w", "e", "l", "l">>)
    @@ (<<"4", "3", "2", "3", "0">> :> <<"G", "a", "h", "a", "n", "n", "a">>)
    @@ (<<"4", "3", "0", "5", "4">> :> <<"N", "e", "w", " ", "A", "l", "b", "a", "n", "y">>)
    @@ (<<"4", "3", "0", "2", "6">> :> <<"H", "i", "l", "l", "i", "a", "r", "d">>)
    @@ (<<"4", "3", "2", "2", "0">> :> <<"U", "p", "p", "e", "r", " ", "A", "r", "l", "i", "n", "g", "t", "o", "n">>)
    @@ (<<"4", "3", "2", "2", "1">> :> <<"U", "p", "p", "e", "r", " ", "A", "r", "l", "i", "n", "g", "t", "o", "n">>)
    @@ (<<"4", "3", "0", "8", "5">> :> <<"W", "o", "r", "t", "h", "i", "n", "g", "t", "o", "n">>)
    @@ (<<"4", "3", "1", "2", "3">> :> <<"G", "r", "o", "v", "e", " ", "C", "i", "t", "y">>)
    @@ (<<"4", "3", "1", "4", "7">> :> <<"P", "i", "c", "k", "e", "r", "i", "n", "g", "t", "o", "n">>)
    @@ (<<"4", "3", "0", "0", "4">> :> <<"B", "l", "a", "c", "k", "l", "i", "c", "k">>)
    @@ (<<"4", "3", "2", "0", "2">> :> <<"C", "l", "i", "n", "t", "o", "n", "v", "i", "l", "l", "e">>)
    @@ (<<"4", "3", "2", "1", "4">> :> <<"C", "l", "i", "n", "t", "o", "n", "v", "i", "l", "l", "e">>)
    @@ (<<"4", "3", "0", "1", "5">> :> <<"D", "e", "l", "a", "w", "a", "r", "e">>)
    @@ (<<"4", "3", "0", "3", "5">> :> <<"L", "e", "w", "i", "s", " ", "C", "e", "n", "t", "e", "r">>)
    @@ (<<"4", "3", "0", "7", "4">> :> <<"S", "u", "n", "b", "u", "r", "y">>)

IsLetter(c) == IsLower(c) \/ IsUpper(c)

UpperChar(c) == IF IsLower(c) THEN UpperLetters[LetterIndex(c, LowerLetters)] ELSE c
LowerChar(c) == IF IsUpper(c) THEN LowerLetters[LetterIndex(c, UpperLetters)] ELSE c

\* str.title
Title(s) ==
    [i \in 1..Len(s) |->
        IF i = 1 \/ ~IsLetter(s[i - 1]) THEN UpperChar(s[i]) ELSE LowerChar(s[i])]

\* re.sub(r'[.,#]', ' ', addr)
RemovePunctuation(s) ==
    [i \in 1..Len(s) |-> IF s[i] \in {".", ",", "#"} THEN " " ELSE s[i]]

\* the word loop of normalize_address
RECURSIVE NormalizeWords(_, _)
NormalizeWords(words, skip_next) ==
    IF words = <<>> THEN <<>>
    ELSE IF skip_next THEN NormalizeWords(Tail(words), FALSE)
    ELSE LET word == Head(words)
             word_lower == Lower(word)
         IN  IF word_lower \in DOMAIN DIRECTION_MAP
             THEN <<DIRECTION_MAP[word_lower]>> \o NormalizeWords(Tail(words), FALSE)
             ELSE IF word_lower \in DOMAIN STREET_TYPE_MAP
             THEN <<STREET_TYPE_MAP[word_lower]>> \o NormalizeWords(Tail(words), FALSE)
             ELSE IF word_lower \in UNIT_WORDS
             THEN NormalizeWords(Tail(words), TRUE)
             ELSE <<word>> \o NormalizeWords(Tail(words), FALSE)

normalize_address(address) ==
    IF Falsy(address) THEN <<>>
    ELSE Join(NormalizeWords(Split(RemovePunctuation(Strip(Upper(address)))), FALSE))

\* difflib.SequenceMatcher(None, a, b) without junk (autojunk needs 200
\* elements).  Positions are 1-based and the ranges are lo..hi-1.

\* the length of the longest common run starting at a[i] and b[j]
RECURSIVE RunLen(_, _, _, _, _, _)
RunLen(a, i, ahi, b, j, bhi) ==
    IF i < ahi /\ j < bhi /\ a[i] = b[j]
    THEN 1 + RunLen(a, i + 1, ahi, b, j + 1, bhi)
    ELSE 0

\* find_longest_match: the longest block, the earliest in a among the longest,
\* and the earliest in b among those
find_longest_match(a, alo, ahi, b, blo, bhi) ==
    LET size(i, j) == RunLen(a, i, ahi, b, j, bhi)
        pairs == (alo..(ahi - 1)) \X (blo..(bhi - 1))
        best == IF pairs = {} THEN 0
                ELSE CHOOSE k \in 0..(ahi - alo) :
                        /\ \E p \in pairs : size(p[1], p[2]) = k
                        /\ \A p \in pairs : size(p[1], p[2]) <= k
    IN  IF best = 0 THEN [i |-> alo, j |-> blo, size |-> 0]
        ELSE LET i == CHOOSE x \in alo..(ahi - 1) :
                        /\ \E y \in blo..(bhi - 1) : size(x, y) = best
                        /\ \A x2 \in alo..(x - 1) :
                              \A y \in blo..(bhi - 1) : size(x2, y) < best
                 j == CHOOSE y \in blo..(bhi - 1) :
                        /\ size(i, y) = best
                        /\ \A y2 \in blo..(y - 1) : size(i, y2) < best
             IN  [i |-> i, j |-> j, size |-> best]

\* get_matching_blocks: the total size of the matching blocks
RECURSIVE MatchedSize(_, _, _, _, _, _)
MatchedSize(a, alo, ahi, b, blo, bhi) ==
    IF alo >= ahi \/ blo >= bhi THEN 0
    ELSE LET m == find_longest_match(a, alo, ahi, b, blo, bhi)
         IN  IF m.size = 0 THEN 0
             ELSE m.size
                  + MatchedSize(a, alo, m.i, b, blo, m.j)
                  + MatchedSize(a, m.i + m.size, ahi, b, m.j + m.size, bhi)

\* SequenceMatcher(None, a, b).ratio() >= threshold, threshold in hundredths
RatioAtLeast(a, b, threshold) ==
    LET matches == MatchedSize(a, 1, Len(a) + 1, b, 1, Len(b) + 1)
        length == Len(a) + Len(b)
    IN  IF length = 0 THEN 100 >= threshold
        ELSE 200 * matches >= threshold * length

\* the default of is_owner_occupied's threshold parameter (0.85), in hundredths
MatchThreshold == 85

\* is_owner_occupied: its locals and its return value
OwnerOccupied(property_address, mailing_address, threshold) ==
    LET norm_property == normalize_address(property_address)
        norm_mailing == normalize_address(mailing_address)
        prop_street == Strip(BeforeComma(norm_property))
        mail_street == Strip(BeforeComma(norm_mailing))
    IN  [norm_property |-> norm_property,
         norm_mailing |-> norm_mailing,
         value |-> IF Falsy(property_address) \/ Falsy(mailing_address) THEN FALSE
                   ELSE IF norm_property = norm_mailing THEN TRUE
                   ELSE IF prop_street = mail_street THEN TRUE
                   ELSE RatioAtLeast(prop_street, mail_street, threshold)]

is_owner_occupied(property_address, mailing_address) ==
    OwnerOccupied(property_address, mailing_address, MatchThreshold).value

-----------------------------------------------------------------------------
(* Dates (parse_date, calculate_years_owned).  A date is [y, m, d]; a day   *)
(* number counts the days since 1970-01-01.                                *)

\* %B and %b of strptime, matched without regard to case
MonthNames ==
    << <<"j", "a", "n", "u", "a", "r", "y">>,
       <<"f", "e", "b", "r", "u", "a", "r", "y">>,
       <<"m", "a", "r", "c", "h">>,
       <<"a", "p", "r", "i", "l">>,
       <<"m", "a", "y">>,
       <<"j", "u", "n", "e">>,
       <<"j", "u", "l", "y">>,
       <<"a", "u", "g", "u", "s", "t">>,
       <<"s", "e", "p", "t", "e", "m", "b", "e", "r">>,
       <<"o", "c", "t", "o", "b", "e", "r">>,
       <<"n", "o", "v", "e", "m", "b", "e", "r">>,
       <<"d", "e", "c", "e", "m", "b", "e", "r">> >>

MonthAbbreviations ==
    << <<"j", "a", "n">>,
       <<"f", "e", "b">>,
       <<"m", "a", "r">>,
       <<"a", "p", "r">>,
       <<"m", "a", "y">>,
       <<"j", "u", "n">>,
       <<"j", "u", "l">>,
       <<"a", "u", "g">>,
       <<"s", "e", "p">>,
       <<"o", "c", "t">>,
       <<"n", "o", "v">>,
       <<"d", "e", "c">> >>

IsDigit(c) == c \in Digits

DigitValue(c) == CHOOSE n \in 0..9 : <<"0", "1", "2", "3", "4", "5", "6", "7", "8", "9">>[n + 1] = c

RECURSIVE DigitsValue(_)
DigitsValue(ds) ==
    IF ds = <<>> THEN 0
    ELSE 10 * DigitsValue(SubSeq(ds, 1, Len(ds) - 1)) + DigitValue(ds[Len(ds)])

\* the class of a character for the lexical shape of a date string
CharClass(c) ==
    IF IsDigit(c) THEN "digits"
    ELSE IF IsLetter(c) THEN "letters"
    ELSE IF c = " " THEN "space"
    ELSE c

\* the length of the run of characters of class k at the start of s
RECURSIVE ClassRun(_, _)
ClassRun(s, k) ==
    IF s # <<>> /\ CharClass(Head(s)) = k THEN 1 + ClassRun(Tail(s), k) ELSE 0

\* a date string as its runs of digits, letters and spaces and its single
\* other characters
RECURSIVE DateTokens(_)
DateTokens(s) ==
    IF s = <<>> THEN <<>>
    ELSE LET k == CharClass(Head(s))
             n == IF k \in {"digits", "letters", "space"} THEN ClassRun(s, k) ELSE 1
         IN  <<[kind |-> k, text |-> SubSeq(s, 1, n)]>>
             \o DateTokens(SubSeq(s, n + 1, Len(s)))

\* the formats parse_date tries, in order; each directive and each literal of
\* a format stands against one token
DATE_FORMATS ==
    << <<"m", "/", "d", "/", "Y">>,
       <<"Y", "-", "m", "-", "d">>,
       <<"m", "-", "d", "-", "Y">>,
       <<"B", " ", "d", ",", " ", "Y">>,
       <<"b", " ", "d", ",", " ", "Y">>,
       <<"Y", "/", "m", "/", "d">>,
       <<"d", "-", "b", "-", "Y">>,
       <<"m", "/", "d", "/", "y">> >>

NameIndex(word, names) ==
    IF \E i \in 1..12 : names[i] = Lower(word)
    THEN CHOOSE i \in 1..12 : names[i] = Lower(word)
    ELSE 0

\* one token against one directive or literal of a format
TokenMatches(tok, f) ==
    IF f = "m" THEN tok.kind = "digits" /\ Len(tok.text) \in {1, 2}
                    /\ DigitsValue(tok.text) \in 1..12
    ELSE IF f = "d" THEN tok.kind = "digits" /\ Len(tok.text) \in {1, 2}
                         /\ DigitsValue(tok.text) \in 1..31
    ELSE IF f = "Y" THEN tok.kind = "digits" /\ Len(tok.text) = 4
    ELSE IF f = "y" THEN tok.kind = "digits" /\ Len(tok.text) = 2
    ELSE IF f = "B" THEN tok.kind = "letters" /\ NameIndex(tok.text, MonthNames) # 0
    ELSE IF f = "b" THEN tok.kind = "letters"
                         /\ NameIndex(tok.text, MonthAbbreviations) # 0
    ELSE IF f = " " THEN tok.kind = "space"
    ELSE tok.kind = f

NoDate == [ok |-> FALSE, y |-> 0, m |-> 0, d |-> 0]

\* the fields a directive sets from its token
StoreField(acc, f, tok) ==
    IF f = "m" THEN [acc EXCEPT !.m = DigitsValue(tok.text)]
    ELSE IF f = "d" THEN [acc EXCEPT !.d = DigitsValue(tok.text)]
    ELSE IF f = "Y" THEN [acc EXCEPT !.y = DigitsValue(tok.text)]
    ELSE IF f = "y"
         THEN [acc EXCEPT !.y = (IF DigitsValue(tok.text) <= 68 THEN 2000 ELSE 1900)
                                + DigitsValue(tok.text)]
    ELSE IF f = "B" THEN [acc EXCEPT !.m = NameIndex(tok.text, MonthNames)]
    ELSE IF f = "b" THEN [acc EXCEPT !.m = NameIndex(tok.text, MonthAbbreviations)]
    ELSE acc

\* %d also takes one space followed by one digit from 1 to 9
SpacePaddedDay(toks) ==
    /\ Len(toks) >= 2
    /\ toks[1].kind = "space" /\ Len(toks[1].text) = 1
    /\ toks[2].kind = "digits" /\ Len(toks[2].text) = 1
    /\ DigitsValue(toks[2].text) \in 1..9

\* the whole token sequence against the whole format
RECURSIVE MatchFormat(_, _, _)
MatchFormat(toks, fmt, acc) ==
    IF fmt = <<>> THEN (IF toks = <<>> THEN [acc EXCEPT !.ok = TRUE] ELSE NoDate)
    ELSE IF toks = <<>> THEN NoDate
    ELSE IF Head(fmt) = "d" /\ SpacePaddedDay(toks)
    THEN MatchFormat(SubSeq(toks, 3, Len(toks)), Tail(fmt),
                     StoreField(acc, "d", toks[2]))
    ELSE IF ~TokenMatches(Head(toks), Head(fmt)) THEN NoDate
    ELSE MatchFormat(Tail(toks), Tail(fmt), StoreField(acc, Head(fmt), Head(toks)))

IsLeap(y) == y % 4 = 0 /\ (y % 100 # 0 \/ y % 400 = 0)

DaysInMonth(y, m) ==
    IF m = 2 THEN (IF IsLeap(y) THEN 29 ELSE 28)
    ELSE IF m \in {4, 6, 9, 11} THEN 30
    ELSE 31

\* datetime.strptime(date_string, fmt).date(): the date, or a ValueError
Strptime(toks, fmt) ==
    LET r == MatchFormat(toks, fmt, NoDate)
    IN  IF r.ok /\ r.y >= 1 /\ r.d <= DaysInMonth(r.y, r.m) THEN r ELSE NoDate

\* the strings parse_date rejects before it tries a format
NOT_A_DATE ==
    { <<>>, <<"N", "/", "A">>, <<"N", "o", "n", "e">>, <<"n", "u", "l", "l">> }

RECURSIVE TryFormats(_, _)
TryFormats(toks, i) ==
    IF i > Len(DATE_FORMATS) THEN NoDate
    ELSE LET r == Strptime(toks, DATE_FORMATS[i])
         IN  IF r.ok THEN r ELSE TryFormats(toks, i + 1)

\* parse_date: a date (ok) or None
parse_date(date_string) ==
    IF Falsy(date_string) \/ date_string \in NOT_A_DATE THEN NoDate
    ELSE TryFormats(DateTokens(Strip(Str(date_string))), 1)

\* the day number of a date (date.toordinal up to the origin)
DayNumber(date) ==
    LET y == IF date.m <= 2 THEN date.y - 1 ELSE date.y
        era == y \div 400
        yoe == y - era * 400
        mp == IF date.m > 2 THEN date.m - 3 ELSE date.m + 9
        doy == (153 * mp + 2) \div 5 + date.d - 1
        doe == yoe * 365 + yoe \div 4 - yoe \div 100 + doy
    IN  era * 146097 + doe - 719468

\* faulty variant: the years are not held at zero
calculate_years_owned_signed(purchase_date) ==
    IF ~purchase_date.ok THEN 0
    ELSE RoundHalfEven((Today - DayNumber(purchase_date)) * 400, 1461)

\* calculate_years_owned of what parse_date returned, in hundredths:
\* round(max(0, days / 365.25), 2), and 100 / 365.25 = 400 / 1461
calculate_years_owned(purchase_date) ==
    IF ~purchase_date.ok THEN 0
    ELSE RoundHalfEven(Max(0, Today - DayNumber(purchase_date)) * 400, 1461)

-----------------------------------------------------------------------------
(* Records built from county data (parse_currency, parse_number, parse_int, *)
(* calculate_equity, format_property_record, validate_property_record).    *)
(* A float is Num(v) or NaN; amounts are in cents, the market value        *)
(* multiplier, years_owned and equity_gain_pct in hundredths; an int is     *)
(* Num(n); None is NoneValue.                                               *)

NaN == [t |-> "nan", v |-> 0]

\* an exception leaving the function
Raised == [t |-> "raised", v |-> 0]

IsNum(x) == x.t = "num"

\* re.sub(pattern, '', s) for a pattern that is a set of characters
RECURSIVE RemoveChars(_, _)
RemoveChars(s, chars) ==
    IF s = <<>> THEN <<>>
    ELSE IF Head(s) \in chars THEN RemoveChars(Tail(s), chars)
    ELSE <<Head(s)>> \o RemoveChars(Tail(s), chars)

\* the position of the first c in s, Len(s) + 1 when there is none
RECURSIVE IndexOf(_, _)
IndexOf(s, c) ==
    IF s = <<>> \/ Head(s) = c THEN 1 ELSE 1 + IndexOf(Tail(s), c)

AllDigits(s) == \A i \in 1..Len(s) : IsDigit(s[i])

\* float(s) of a string without whitespace: a sign, digits with at most one
\* point, or nan; Bad is the ValueError.  The value keeps two decimals.
ParseFloat(s) ==
    LET signed == s # <<>> /\ Head(s) \in {"+", "-"}
        body == IF signed THEN Tail(s) ELSE s
        dot == IndexOf(body, ".")
        whole == SubSeq(body, 1, dot - 1)
        frac == SubSeq(body, dot + 1, Len(body))
        cents == DigitsValue(Prefix(frac \o <<"0", "0">>, 2))
        magnitude == DigitsValue(whole) * 100 + cents
    IN  IF Lower(body) = <<"n", "a", "n">> THEN NaN
        ELSE IF AllDigits(whole) /\ AllDigits(frac) /\ Len(whole) + Len(frac) > 0
        THEN Num(IF signed /\ Head(s) = "-" THEN 0 - magnitude ELSE magnitude)
        ELSE Bad

\* parse_currency: a float, 0.0 when the value is empty or is not a number
parse_currency(value) ==
    IF Falsy(value) THEN Num(0)
    ELSE LET r == ParseFloat(RemoveChars(Str(value), {"$", ",", " "}))
         IN  IF r = Bad THEN Num(0) ELSE r

\* the strings parse_number takes for no value
NOT_A_NUMBER == { <<>>, <<"N", "/", "A">>, <<"N", "o", "n", "e">>, <<"n", "u", "l", "l">>, <<"-">> }

\* parse_number: a float or None
parse_number(value) ==
    IF Falsy(value) \/ Strip(Str(value)) \in NOT_A_NUMBER THEN NoneValue
    ELSE LET r == ParseFloat(RemoveChars(Str(value), {",", " "}))
         IN  IF r = Bad THEN NoneValue ELSE r

\* parse_int: int(num) truncates toward zero and raises on nan
parse_int(value) ==
    LET num == parse_number(value)
    IN  IF num = NoneValue THEN NoneValue
        ELSE IF num = NaN THEN Raised
        ELSE Num(IF num.v >= 0 THEN num.v \div 100 ELSE 0 - ((0 - num.v) \div 100))

\* floor(n * 10^k / d) and what remains, for d > 0
RECURSIVE ScaledQuotient(_, _, _)
ScaledQuotient(n, d, k) ==
    IF k = 0 THEN [q |-> n \div d, r |-> n % d]
    ELSE LET p == ScaledQuotient(n, d, k - 1)
         IN  [q |-> p.q * 10 + (p.r * 10) \div d, r |-> (p.r * 10) % d]

\* round(n / d * 10^k)
RoundedQuotient(n, d, k) ==
    LET p == ScaledQuotient(n, d, k)
    IN  IF 2 * p.r > d \/ (2 * p.r = d /\ p.q % 2 = 1) THEN p.q + 1 ELSE p.q

\* faulty variant: the market value and the price change places
calculate_equity_swapped(market_value, purchase_price) ==
    IF market_value = Num(0) \/ purchase_price = Num(0)
       \/ (IsNum(purchase_price) /\ purchase_price.v <= 0)
    THEN [equity |-> Num(0), equity_pct |-> Num(0)]
    ELSE IF ~IsNum(market_value) \/ ~IsNum(purchase_price)
    THEN [equity |-> NaN, equity_pct |-> NaN]
    ELSE [equity |-> Num(purchase_price.v - market_value.v),
          equity_pct |-> Num(RoundedQuotient(purchase_price.v - market_value.v,
                                             purchase_price.v, 4))]

\* calculate_equity: (round(equity, 2), round(equity_pct, 2)), or (0.0, 0.0)
calculate_equity(market_value, purchase_price) ==
    IF market_value = Num(0) \/ purchase_price = Num(0)
       \/ (IsNum(purchase_price) /\ purchase_price.v <= 0)
    THEN [equity |-> Num(0), equity_pct |-> Num(0)]
    ELSE IF ~IsNum(market_value) \/ ~IsNum(purchase_price)
    THEN [equity |-> NaN, equity_pct |-> NaN]
    ELSE [equity |-> Num(market_value.v - purchase_price.v),
          equity_pct |-> Num(RoundedQuotient(market_value.v - purchase_price.v,
                                             purchase_price.v, 4))]

\* map_city_to_neighborhood
map_city_to_neighborhood(city, zip_code) ==
    LET zip == IF Falsy(zip_code) THEN <<>> ELSE Prefix(Strip(Str(zip_code)), 5)
        town == IF Falsy(city) THEN <<>> ELSE Title(Strip(Str(city)))
    IN  IF zip \in DOMAIN NEIGHBORHOOD_MAP THEN NEIGHBORHOOD_MAP[zip]
        ELSE IF town # <<>> THEN town
        ELSE <<"U", "n", "k", "n", "o", "w", "n">>

DigitChar(n) == <<"0", "1", "2", "3", "4", "5", "6", "7", "8", "9">>[n + 1]

\* n in decimal, padded with zeros to the given width
RECURSIVE ZeroPadded(_, _)
ZeroPadded(n, width) ==
    IF width = 0 THEN <<>> ELSE ZeroPadded(n \div 10, width - 1) \o <<DigitChar(n % 10)>>

\* date.isoformat
isoformat(d) == ZeroPadded(d.y, 4) \o <<"-">> \o ZeroPadded(d.m, 2) \o <<"-">> \o ZeroPadded(d.d, 2)

\* x.strip() if x else ''
StripOrEmpty(x) == IF Falsy(x) THEN <<>> ELSE Strip(x)

\* assessed_value * market_value_multiplier, to the cent
TimesMultiplier(assessed_value, multiplier) ==
    IF ~IsNum(assessed_value) THEN NaN
    ELSE Num((assessed_value.v \div 100) * multiplier
             + RoundHalfEven((assessed_value.v % 100) * multiplier, 100))

\* format_property_record; a holds the arguments (last_updated, the time of
\* the call, is left out)
format_property_record(a) ==
    LET parsed_date == parse_date(a.purchase_date)
        years_owned == calculate_years_owned(parsed_date)
        estimated_market_value ==
            IF a.assessed_value # Num(0)
            THEN TimesMultiplier(a.assessed_value, a.market_value_multiplier)
            ELSE Num(0)
        equity == calculate_equity(estimated_market_value, a.purchase_price)
    IN  [parcel_id |-> Strip(Str(a.parcel_id)),
         address |-> StripOrEmpty(a.address),
         city |-> StripOrEmpty(a.city),
         zip |-> IF Falsy(a.zip_code) THEN <<>> ELSE Prefix(Strip(Str(a.zip_code)), 5),
         county |-> StripOrEmpty(a.county),
         neighborhood |-> map_city_to_neighborhood(a.city, a.zip_code),
         owner_name |-> StripOrEmpty(a.owner_name),
         owner_mailing_address |-> StripOrEmpty(a.owner_mailing_address),
         is_owner_occupied |-> is_owner_occupied(a.address, a.owner_mailing_address),
         purchase_date |-> IF parsed_date.ok THEN isoformat(parsed_date) ELSE <<>>,
         purchase_price |-> a.purchase_price,
         years_owned |-> years_owned,
         assessed_value |-> a.assessed_value,
         estimated_market_value |-> estimated_market_value,
         estimated_equity |-> equity.equity,
         equity_gain_pct |-> equity.equity_pct,
         beds |-> a.beds,
         baths |-> a.baths,
         sqft |-> a.sqft,
         year_built |-> a.year_built,
         property_class |-> StripOrEmpty(a.property_class),
         propensity_score |-> NoneValue,
         td_fit_score |-> NoneValue,
         priority_tier |-> NoneValue]

\* the checks of validate_property_record in their order
ValidationErrors(rec) ==
    (IF rec.parcel_id = <<>> THEN <<"Missing parcel_id">> ELSE <<>>)
    \o (IF rec.address = <<>> THEN <<"Missing address">> ELSE <<>>)
    \o (IF rec.zip = <<>> THEN <<"Missing ZIP code">> ELSE <<>>)
    \o (IF IsNum(rec.purchase_price) /\ rec.purchase_price.v < 0
        THEN <<"Negative purchase price">> ELSE <<>>)
    \o (IF IsNum(rec.assessed_value) /\ rec.assessed_value.v < 0
        THEN <<"Negative assessed value">> ELSE <<>>)
    \o (IF /\ rec.year_built # NoneValue
           /\ rec.year_built # Num(0)
           /\ (rec.year_built.v < 1800 \/ rec.year_built.v > CurrentYear + 1)
        THEN <<"Invalid year_built">> ELSE <<>>)

\* validate_property_record: (is_valid, errors)
validate_property_record(rec) ==
    [is_valid |-> Len(ValidationErrors(rec)) = 0, errors |-> ValidationErrors(rec)]

\* the arguments transform_property passes to format_property_record
RecordArguments(raw, multiplier) ==
    [parcel_id |-> raw.parcel_id,
     address |-> raw.address,
     city |-> raw.city,
     zip_code |-> raw.zip,
     county |-> <<"F", "r", "a", "n", "k", "l", "i", "n">>,
     owner_name |-> raw.owner_name,
     owner_mailing_address |-> raw.owner_mailing,
     purchase_date |-> raw.transfer_date,
     purchase_price |-> parse_currency(raw.transfer_price),
     assessed_value |-> parse_currency(raw.assessed_value),
     beds |-> parse_int(raw.beds),
     baths |-> parse_int(raw.baths),
     sqft |-> parse_int(raw.sqft),
     year_built |-> parse_int(raw.year_built),
     property_class |-> raw.property_class,
     market_value_multiplier |-> multiplier]

\* an argument expression of transform_property raised
ArgumentsRaise(a) == Raised \in {a.beds, a.baths, a.sqft, a.year_built}

-----------------------------------------------------------------------------
(* normalize_address and is_owner_occupied called on addresses (AddressSpec) *)

\* street lines
AddressBases ==
    { <<"1", "2", "3", " ", "M", "a", "i", "n", " ", "S", "t", "r", "e", "e", "t">>,
      <<"4", "5", "6", " ", "O", "a", "k", " ", "A", "v", "e">>,
      <<"1", "0", "0", " ", "P", "a", "r", "k", " ", "R", "d">>,
      <<"3", "2", "1", " ", "S", "W", " ", "P", "a", "r", "k", " ", "R", "d">>,
      <<"7", "8", "9", " ", "N", "o", "r", "t", "h", " ", "E", "l", "m", " ", "B", "l", "v", "d">> }

\* unit designators with their values, as they follow a street line
UnitSuffixes ==
    { <<" ", "A", "P", "T", " ", "2", "B">>,
      <<" ", "U", "N", "I", "T", " ", "5">>,
      <<" ", "S", "T", "E", " ", "1", "0", "0">>,
      <<" ", "#", "5">>,
      <<" ", "L", "O", "T", " ", "1", "2">>,
      <<",", " ", "A", "p", "t", " ", "2", "B">>,
      <<" ", "S", "u", "i", "t", "e", " ", "4">> }

\* what follows the street line of a mailing address
CitySuffixes ==
    { <<",", " ", "C", "o", "l", "u", "m", "b", "u", "s", " ", "O", "H", " ", "4", "3", "0", "8", "1">>,
      <<",", " ", "D", "u", "b", "l", "i", "n">>,
      <<",", " ", "O", "H">> }

\* the same street lines in several spellings, and other street lines
AddressSpellings ==
    { <<"1", "2", "3", " ", "M", "a", "i", "n", " ", "S", "t", "r", "e", "e", "t">>,
      <<"1", "2", "3", " ", "M", "A", "I", "N", " ", "S", "T">>,
      <<"1", "2", "3", " ", "m", "a", "i", "n", " ", "s", "t", ".">>,
      <<"1", "2", "3", " ", "M", "a", "i", "n", " ", "S", "t", "r">>,
      <<"1", "0", "0", " ", "P", "a", "r", "k", " ", "R", "d">>,
      <<"1", "0", "0", " ", "P", "A", "R", "K", " ", "R", "O", "A", "D">>,
      <<"1", "0", "0", " ", "p", "a", "r", "k", " ", "r", "o", "a", "d">>,
      <<"7", "8", "9", " ", "N", "o", "r", "t", "h", " ", "E", "l", "m", " ", "B", "l", "v", "d">>,
      <<"7", "8", "9", " ", "N", " ", "E", "L", "M", " ", "B", "O", "U", "L", "E", "V", "A", "R", "D">>,
      <<"7", "8", "9", " ", "n", ".", " ", "E", "l", "m", " ", "b", "l", "v", "d">>,
      <<"4", "5", "6", " ", "O", "a", "k", " ", "A", "v", "e">>,
      <<"7", "8", "9", " ", "E", "l", "m", " ", "S", "t">>,
      <<"1", "2", "4", " ", "M", "a", "i", "n", " ", "S", "t">> }

\* an address with a unit or a city against its street line, spellings against
\* each other, and empty or missing arguments
AddressPairs ==
    {<<b \o s, b>> : b \in AddressBases, s \in UnitSuffixes \cup CitySuffixes}
    \cup {<<b, b \o s>> : b \in AddressBases, s \in CitySuffixes}
    \cup (AddressSpellings \X AddressSpellings)
    \cup {<<a, b>> \in (AddressBases \cup {<<>>, PyNone}) \X {<<>>, PyNone} : TRUE}
    \cup {<<a, b>> \in {<<>>, PyNone} \X AddressBases : TRUE}

InitAddress ==
    /\ config = DEFAULT_CONFIG
    /\ neighborhood_stats = NoStats
    /\ errors = <<>>
    /\ has_client = FALSE
    /\ store_config = DEFAULT_CONFIG
    /\ master = <<>>
    /\ hot_tab = <<>>
    /\ warm_tab = <<>>
    /\ stats_tab = <<>>
    /\ run_log = NoLog
    /\ pc = "address"
    /\ dry_run = TRUE
    /\ properties = <<>>
    /\ scored_properties = <<>>
    /\ hot_leads = <<>>
    /\ warm_leads = <<>>
    /\ write_error = FALSE
    /\ summary = NoSummary
    /\ calls = {}
    /\ before = Tabs
    /\ raw_data = NoneValue
    /\ record = NoneValue
    /\ validation = NoneValue
    /\ result = NoneValue
    /\ \E p \in AddressPairs :
           addresses = [property_address |-> p[1], mailing_address |-> p[2]]
    /\ normalized = NoneValue
    /\ owner_occupied = NoneValue

runVars == <<config, neighborhood_stats, errors, has_client, store_config, master,
             hot_tab, warm_tab, stats_tab, run_log, dry_run, properties,
             scored_properties, hot_leads, warm_leads, write_error, summary, calls,
             before>>

\* normalize_address(property_address), normalize_address(mailing_address)
NormalizeAddresses ==
    /\ pc = "address"
    /\ normalized' = [property |-> normalize_address(addresses.property_address),
                      mailing |-> normalize_address(addresses.mailing_address)]
    /\ pc' = "normalized"
    /\ UNCHANGED <<runVars, raw_data, record, validation, result, addresses,
                   owner_occupied>>

\* is_owner_occupied(property_address, mailing_address)
IsOwnerOccupied ==
    /\ pc = "normalized"
    /\ owner_occupied' = [value |-> is_owner_occupied(addresses.property_address,
                                                      addresses.mailing_address)]
    /\ pc' = "compared"
    /\ UNCHANGED <<runVars, raw_data, record, validation, result, addresses,
                   normalized>>

NextAddress == NormalizeAddresses \/ IsOwnerOccupied

AddressSpec == InitAddress /\ [][NextAddress]_vars

-----------------------------------------------------------------------------
(* transform_property called on a raw county record (IngestSpec) *)

\* a raw record every field of which is in order
BaseRaw ==
    [parcel_id |-> <<"0", "1", "0", "-", "1", "2", "3", "4", "5", "6">>,
     address |-> <<"1", "0", "0", " ", "P", "a", "r", "k", " ", "R", "d">>,
     city |-> <<"W", "e", "s", "t", "e", "r", "v", "i", "l", "l", "e">>,
     zip |-> <<"4", "3", "0", "8", "1">>,
     owner_name |-> <<"S", "M", "I", "T", "H", " ", "J", "O", "H", "N">>,
     owner_mailing |-> <<"1", "0", "0", " ", "P", "A", "R", "K", " ", "R", "O", "A", "D">>,
     transfer_date |-> <<"0", "1", "/", "1", "5", "/", "2", "0", "2", "0">>,
     transfer_price |-> <<"$", "2", "5", "0", ",", "0", "0", "0", ".", "0", "0">>,
     assessed_value |-> <<"3", "0", "0", "0", "0", "0">>,
     beds |-> <<"3">>,
     baths |-> <<"2">>,
     sqft |-> <<"1", ",", "8", "0", "0">>,
     year_built |-> <<"2", "0", "0", "6">>,
     property_class |-> <<"5", "1", "0">>]

\* values of single fields as county data has them: absent fields come as ''
\* (the default of dict.get) or as None (a null of the GIS service)
RawParcelIds == { <<>>, PyNone, <<" ", "0", "1", "0", "-", "1", "2", "3", "4", "5", "6", " ">>, <<" ", " ", " ">> }
RawAddresses == { <<>>, PyNone, <<" ", "4", "5", "6", " ", "O", "a", "k", " ", "A", "v", "e", " ">> }
RawCities == { <<>>, PyNone, <<"n", "e", "w", " ", "a", "l", "b", "a", "n", "y">>, <<" ", "D", "U", "B", "L", "I", "N", " ">> }
RawZips == { <<>>, PyNone, <<"4", "3", "0", "8", "1", "-", "1", "2", "3", "4">>, <<" ", "4", "3", "0", "1", "6", " ">>, <<"4", "3", "0", "8">>, <<"A", "B", "C", "D", "E">>, <<"4", "3", "0", "8", "1", "1", "2", "3", "4">>, <<" ", " ", " ">> }
RawMailings == { <<>>, PyNone, <<"4", "5", "6", " ", "O", "a", "k", " ", "A", "v", "e">>, <<"1", "0", "0", " ", "P", "a", "r", "k", " ", "R", "d", ",", " ", "W", "e", "s", "t", "e", "r", "v", "i", "l", "l", "e", " ", "O", "H", " ", "4", "3", "0", "8", "1">> }
RawDates ==
    { <<>>, PyNone, <<"N", "/", "A">>, <<"n", "o", "t", " ", "a", " ", "d", "a", "t", "e">>, <<"0", "2", "/", "3", "0", "/", "2", "0", "2", "0">>, <<"1", "3", "/", "0", "1", "/", "2", "0", "2", "0">>, <<"2", "0", "2", "0", "-", "0", "1", "-", "1", "5">>,
      <<"J", "a", "n", "u", "a", "r", "y", " ", "1", "5", ",", " ", "2", "0", "2", "0">>, <<"1", "5", "-", "J", "a", "n", "-", "2", "0", "2", "0">>, <<"0", "1", "/", "1", "5", "/", "2", "0">>, <<"1", "2", "/", "3", "1", "/", "2", "0", "3", "0">>, <<"2", "0", "2", "7", "-", "0", "1", "-", "0", "1">>,
      <<"1", "1", "/", "0", "6", "/", "2", "0", "2", "6">>, <<"1", "1", "/", "0", "7", "/", "2", "0", "2", "6">>, <<"1", "1", "/", "0", "5", "/", "2", "0", "1", "6">>, <<"1", "/", "5", "/", "2", "0", "2", "0", " ">> }
RawPrices ==
    { <<>>, PyNone, <<"0">>, <<"$", "0", ".", "0", "0">>, <<"2", "5", "0", "0", "0", "0">>, <<"$", "3", "0", "0", ",", "0", "0", "0">>, <<"$", "1", ",", "2", "3", "4", ".", "5", "6">>, <<"-", "1", "0", "0">>, <<"a", "b", "c">>, <<"n", "a", "n">>,
      <<"$", " ", "9", "9", ",", "9", "9", "9", ".", "9", "9">> }
RawAssessed == { <<>>, PyNone, <<"0">>, <<"3", "0", "0", "0", "0", "0">>, <<"$", "1", "5", "0", ",", "0", "0", "0">>, <<"-", "5">>, <<"2", "0", "0", "0", "0", "5">>, <<"N", "/", "A">> }
RawYears ==
    { <<>>, PyNone, <<"N", "/", "A">>, <<"0">>, <<"1", "7", "9", "9">>, <<"1", "8", "0", "0">>, <<"1", "9", "9", "5", ".", "7">>, <<"2", "0", "2", "7">>, <<"2", "0", "2", "8">>, <<"-", "5">>, <<"a", "b", "c">>, <<"n", "a", "n">> }
RawCounts == { <<>>, PyNone, <<"4">>, <<"n", "a", "n">> }
Multipliers == {100, 110, 125}

RawRecords ==
    {BaseRaw}
    \cup {[BaseRaw EXCEPT !.parcel_id = x] : x \in RawParcelIds}
    \cup {[BaseRaw EXCEPT !.address = x] : x \in RawAddresses}
    \cup {[BaseRaw EXCEPT !.city = x] : x \in RawCities}
    \cup {[BaseRaw EXCEPT !.zip = x] : x \in RawZips}
    \cup {[BaseRaw EXCEPT !.city = x, !.zip = <<"4", "5", "0", "0", "0">>] : x \in RawCities}
    \cup {[BaseRaw EXCEPT !.owner_mailing = x] : x \in RawMailings}
    \cup {[BaseRaw EXCEPT !.transfer_date = x] : x \in RawDates}
    \cup {[BaseRaw EXCEPT !.transfer_price = x, !.assessed_value = y] :
              x \in RawPrices, y \in RawAssessed}
    \cup {[BaseRaw EXCEPT !.year_built = x] : x \in RawYears}
    \cup {[BaseRaw EXCEPT !.beds = x] : x \in RawCounts}
    \cup {[BaseRaw EXCEPT !.sqft = x, !.baths = <<"2", ".", "5">>] : x \in RawCounts}

InitIngest ==
    /\ \E m \in Multipliers : config = [DEFAULT_CONFIG EXCEPT !.market_value_multiplier = m]
    /\ neighborhood_stats = NoStats
    /\ errors = <<>>
    /\ has_client = FALSE
    /\ store_config = DEFAULT_CONFIG
    /\ master = <<>>
    /\ hot_tab = <<>>
    /\ warm_tab = <<>>
    /\ stats_tab = <<>>
    /\ run_log = NoLog
    /\ pc = "raw"
    /\ dry_run = TRUE
    /\ properties = <<>>
    /\ scored_properties = <<>>
    /\ hot_leads = <<>>
    /\ warm_leads = <<>>
    /\ write_error = FALSE
    /\ summary = NoSummary
    /\ calls = {}
    /\ before = Tabs
    /\ raw_data \in RawRecords
    /\ record = NoneValue
    /\ validation = NoneValue
    /\ result = NoneValue
    /\ addresses = NoneValue
    /\ normalized = NoneValue
    /\ owner_occupied = NoneValue

\* transform_property up to the record: the arguments are evaluated, and
\* format_property_record builds the record; an exception ends the call with None
FormatRecord ==
    /\ pc = "raw"
    /\ LET a == RecordArguments(raw_data, config.market_value_multiplier)
       IN  IF ArgumentsRaise(a)
           THEN /\ pc' = "returned"
                /\ record' = record
           ELSE /\ pc' = "formatted"
                /\ record' = format_property_record(a)
    /\ UNCHANGED <<runVars, raw_data, validation, result, addresses, normalized,
                   owner_occupied>>

\* transform_property from the record on: an invalid record is dropped
ValidateRecord ==
    /\ pc = "formatted"
    /\ validation' = validate_property_record(record)
    /\ result' = IF validation'.is_valid THEN record ELSE NoneValue
    /\ pc' = "returned"
    /\ UNCHANGED <<runVars, raw_data, record, addresses, normalized, owner_occupied>>

NextIngest == FormatRecord \/ ValidateRecord

IngestSpec == InitIngest /\ [][NextIngest]_vars

-----------------------------------------------------------------------------
(* Claims about score_properties (checked under ScoreSpec) *)

AfterScoring == pc \in {"pass2", "rescored"}

ScoredIdx == 1..Len(scored_properties)

\* years_owned and estimated_equity of a scored record, as the code reads them
YearsOf(r) == FloatOrZero(r.years_owned).val
EquityOf(r) == FloatOrZero(r.estimated_equity).val

SubjectToOverride(r) ==
    YearsOf(r) < config.min_years_owned \/ EquityOf(r) < config.min_equity

IsScore(c) == c.t = "num" /\ c.v \in 0..100

\* C1: every record score_properties returns has integer propensity_score and
\* td_fit_score within 0..100, whatever the weights and the neighborhood stats.
C1_ScoreBounds ==
    AfterScoring =>
        \A i \in ScoredIdx :
            /\ IsScore(scored_properties[i].propensity_score)
            /\ IsScore(scored_properties[i].td_fit_score)

\* the weights sum to 1.6 and a returned record was clamped down to 100
C1_Witness ==
    /\ pc = "pass2"
    /\ config.weight_years_owned + config.weight_equity_gain
         + config.weight_neighborhood_turnover + config.weight_owner_occupied
         + config.weight_price_tier + config.weight_home_age > 100
    /\ \E i \in ScoredIdx : scored_properties[i].propensity_score = Num(100)

\* C2 (as amended): for a scored record not subject to the eligibility
\* override, HOT iff propensity >= hot_threshold, WARM iff warm_threshold <=
\* propensity < hot_threshold, COLD iff propensity is below both thresholds.
C2_TierConsistency ==
    AfterScoring =>
        \A i \in ScoredIdx :
            LET r == scored_properties[i]
                p == r.propensity_score.v
            IN  ~SubjectToOverride(r) =>
                    /\ (r.priority_tier = "HOT") <=> (p >= config.hot_threshold)
                    /\ (r.priority_tier = "WARM") <=>
                           (config.warm_threshold <= p /\ p < config.hot_threshold)
                    /\ (r.priority_tier = "COLD") <=>
                           (p < config.warm_threshold /\ p < config.hot_threshold)

\* C2 (as claimed): the same with COLD iff propensity < warm_threshold, for
\* every configured pair of thresholds.
C2_Original ==
    AfterScoring =>
        \A i \in ScoredIdx :
            LET r == scored_properties[i]
                p == r.propensity_score.v
            IN  ~SubjectToOverride(r) =>
                    /\ (r.priority_tier = "HOT") <=> (p >= config.hot_threshold)
                    /\ (r.priority_tier = "WARM") <=>
                           (config.warm_threshold <= p /\ p < config.hot_threshold)
                    /\ (r.priority_tier = "COLD") <=> (p < config.warm_threshold)

\* an eligible record scored exactly at hot_threshold is HOT, and another
\* eligible record sits below hot_threshold
C2_Witness ==
    /\ pc = "pass2"
    /\ \E i, j \in ScoredIdx :
        /\ ~SubjectToOverride(scored_properties[i])
        /\ scored_properties[i].propensity_score.v = config.hot_threshold
        /\ scored_properties[i].priority_tier = "HOT"
        /\ ~SubjectToOverride(scored_properties[j])
        /\ scored_properties[j].propensity_score.v < config.hot_threshold
        /\ scored_properties[j].priority_tier # "HOT"

SameScores(a, b) ==
    /\ a.propensity_score = b.propensity_score
    /\ a.td_fit_score = b.td_fit_score
    /\ a.priority_tier = b.priority_tier

ScoringThrows(r) ==
    \/ r.years_owned.t = "bad"
    \/ r.estimated_equity.t = "bad"
    \/ r.equity_gain_pct.t = "bad"
    \/ r.estimated_market_value.t = "bad"
    \/ r.year_built.t = "bad"

PropIdx == 1..Len(properties)

\* C5: after score_properties on a batch, the records whose computation throws
\* are absent from the returned list and each has exactly one error naming its
\* parcel_id; all other records are returned, in input order.
C5_FailureIsolation ==
    pc = "pass2" =>
        /\ Len(scored_properties) + Len(errors) = Len(properties)
        /\ \A i \in PropIdx :
               IF ScoringThrows(properties[i])
               THEN /\ Cardinality({k \in 1..Len(errors) :
                            errors[k] = <<"Scoring failed for", properties[i].parcel_id>>}) = 1
                    /\ \A k \in ScoredIdx :
                            scored_properties[k].parcel_id # properties[i].parcel_id
               ELSE /\ Cardinality({k \in ScoredIdx : scored_properties[k] = properties[i]}) = 1
                    /\ \A k \in 1..Len(errors) : errors[k][2] # properties[i].parcel_id
        /\ \A k, l \in ScoredIdx :
               k < l =>
                   \E i, j \in PropIdx :
                       /\ i < j
                       /\ properties[i] = scored_properties[k]
                       /\ properties[j] = scored_properties[l]

\* the first record of the batch failed and the one after it was still scored
C5_Witness ==
    /\ pc = "pass2"
    /\ Len(properties) >= 2
    /\ ScoringThrows(properties[1])
    /\ errors = <<<<"Scoring failed for", properties[1].parcel_id>>>>
    /\ Len(scored_properties) = Len(properties) - 1
    /\ scored_properties[1] = properties[2]

\* the six sub-scores of a scored record, in the order of the weights
SubScores(r) ==
    << calculate_years_owned_score(FloatOrZero(r.years_owned).val),
       calculate_equity_gain_score(FloatOrZero(r.equity_gain_pct).val),
       calculate_neighborhood_turnover_score(r.zip, neighborhood_stats),
       calculate_owner_occupied_score(OwnerOccupiedFlag(r.is_owner_occupied)),
       calculate_price_tier_score(FloatOrZero(r.estimated_market_value).val, config),
       calculate_home_age_score(r.year_built) >>

\* the sum of the sub-scores times their weights, in hundredths
WeightedSum(s) ==
    s[1] * config.weight_years_owned + s[2] * config.weight_equity_gain
    + s[3] * config.weight_neighborhood_turnover + s[4] * config.weight_owner_occupied
    + s[5] * config.weight_price_tier + s[6] * config.weight_home_age

DefaultWeights ==
    /\ config.weight_years_owned = 25
    /\ config.weight_equity_gain = 25
    /\ config.weight_neighborhood_turnover = 15
    /\ config.weight_owner_occupied = 10
    /\ config.weight_price_tier = 15
    /\ config.weight_home_age = 10

\* years_owned 6, equity_gain_pct 40, ZIP turnover 6%, not owner-occupied,
\* market value in the target range, home age 20
WorkedExample(r) ==
    /\ r.years_owned = Num(600)
    /\ r.equity_gain_pct = Num(4000)
    /\ r.zip \in DOMAIN neighborhood_stats
    /\ neighborhood_stats[r.zip].turnover_rate_12mo = 600
    /\ ~OwnerOccupiedFlag(r.is_owner_occupied)
    /\ r.estimated_market_value.t = "num"
    /\ r.estimated_market_value.v >= config.target_price_min
    /\ r.estimated_market_value.v <= config.target_price_max
    /\ r.year_built = Num(CurrentYear - 20)

\* C16: with the default weights the worked example gets sub-scores 80, 70,
\* 75, 90, 100, 90 and propensity_score 82, and the tier HOT (hot_threshold
\* 80, the record meeting the eligibility minimums); in general
\* propensity_score is round(sum of sub-score x weight) clamped to 0..100.
C16_Propensity ==
    AfterScoring =>
        \A i \in ScoredIdx :
            LET r == scored_properties[i]
            IN  /\ r.propensity_score
                       = Num(Min(100, Max(0, RoundHalfEven(WeightedSum(SubScores(r)), 100))))
                /\ DefaultWeights /\ WorkedExample(r) =>
                       /\ SubScores(r) = <<80, 70, 75, 90, 100, 90>>
                       /\ r.propensity_score = Num(82)
                       /\ config.hot_threshold = 80 /\ ~SubjectToOverride(r)
                              => r.priority_tier = "HOT"

C16_Witness ==
    /\ pc = "pass2"
    /\ DefaultWeights
    /\ config.hot_threshold = 80
    /\ \E i \in ScoredIdx :
           /\ WorkedExample(scored_properties[i])
           /\ scored_properties[i].propensity_score = Num(82)
           /\ scored_properties[i].priority_tier = "HOT"

-----------------------------------------------------------------------------
(* Claims about the turnover sub-score (checked under TurnoverSpec) *)

\* the records of the batch in ZIP z, and those of them bought within the
\* last 365 days
InZip(z) == {j \in 1..Len(properties) : properties[j].zip = z}
RecentInZip(z) == {j \in InZip(z) : Today - properties[j].purchase_date.v <= 365}

\* C17: the turnover sub-score of a record is 50 when its ZIP has no
\* neighborhood stats, and otherwise 30 for a turnover_rate_12mo below 3, 50
\* below 5, 75 below 8, 100 up to and including 12, and 90 above 12; a ZIP
\* with exactly 3 recent purchases among 30 records has turnover_rate_12mo
\* 10.0 and sub-score 100.  (Under TurnoverSpec the turnover weight is 1 and
\* the other weights are 0, so propensity_score is the sub-score.)
C17_TurnoverScore ==
    pc = "pass2" =>
        \A i \in ScoredIdx :
            LET r == scored_properties[i]
                score == r.propensity_score.v
            IN  /\ score = calculate_neighborhood_turnover_score(r.zip, neighborhood_stats)
                /\ r.zip \notin DOMAIN neighborhood_stats => score = 50
                /\ r.zip \in DOMAIN neighborhood_stats =>
                       LET rate == neighborhood_stats[r.zip].turnover_rate_12mo
                       IN  /\ rate < 300 => score = 30
                           /\ 300 <= rate /\ rate < 500 => score = 50
                           /\ 500 <= rate /\ rate < 800 => score = 75
                           /\ 800 <= rate /\ rate <= 1200 => score = 100
                           /\ rate > 1200 => score = 90
                           /\ Cardinality(InZip(r.zip)) = 30
                                  /\ Cardinality(RecentInZip(r.zip)) = 3
                                  => rate = 1000 /\ score = 100

C17_Witness ==
    /\ pc = "pass2"
    /\ \E i \in ScoredIdx :
           LET r == scored_properties[i]
           IN  /\ Cardinality(InZip(r.zip)) = 30
               /\ Cardinality(RecentInZip(r.zip)) = 3
               /\ neighborhood_stats[r.zip].turnover_rate_12mo = 1000
               /\ r.propensity_score = Num(100)

-----------------------------------------------------------------------------
(* Claims about run (checked under Spec) *)

\* the write phase of the current run is over (or the run never had one)
WritesOver == pc \in {"log", "returned", "raised"}

\* the current run reached its write phase
Wrote == "update_rows" \in calls

Count(seq, x) == Cardinality({k \in 1..Len(seq) : seq[k] = x})

\* tab holds exactly the scored records of the tier, by propensity descending
IsTierList(tab, tier) ==
    /\ \A k \in 1..Len(tab) : tab[k].priority_tier = tier
    /\ \A i \in ScoredIdx :
           scored_properties[i].priority_tier = tier =>
               Count(tab, scored_properties[i])
                   = Count(scored_properties, scored_properties[i])
    /\ Len(tab) = Cardinality({i \in ScoredIdx : scored_properties[i].priority_tier = tier})
    /\ \A k, l \in 1..Len(tab) :
           k < l => tab[k].propensity_score.v >= tab[l].propensity_score.v

\* the Master Properties tab carries the scores of this run
MasterReflectsRun ==
    /\ Len(master) = Len(before.master)
    /\ \A i \in ScoredIdx : Count(master, scored_properties[i]) = 1
    /\ \A i \in 1..Len(master) :
           \/ \E k \in ScoredIdx : scored_properties[k] = master[i]
           \/ master[i] = before.master[i]

\* tab holds one row per ZIP of the final stats of this run, and nothing else
IsCompleteStats(tab) ==
    /\ Len(tab) = Cardinality(DOMAIN neighborhood_stats)
    /\ \A z \in DOMAIN neighborhood_stats :
           \E k \in 1..Len(tab) : tab[k] = neighborhood_stats[z]

\* C6 (as claimed): the returned status is 'error' exactly when no input could
\* be obtained or the output could not be persisted, 'success' exactly when
\* nothing was dropped and nothing failed, 'partial' otherwise.
C6_StatusTaxonomy ==
    pc = "returned" =>
        LET fatal == properties = <<>> \/ write_error
            dropped == Len(scored_properties) < Len(properties)
        IN  /\ (summary.status = "error") <=> fatal
            /\ (summary.status = "success") <=> (~fatal /\ ~dropped)
            /\ (summary.status = "partial") <=> (~fatal /\ dropped)

\* C7 (as claimed): the summary's error list is the first five errors.
C7_Original ==
    pc = "returned" =>
        /\ Len(summary.errors) <= 5
        /\ \A k \in 1..Len(summary.errors) : summary.errors[k] = errors[k]

\* C7 (as amended): what run hands to log_run is at most five entries, the
\* first five of the engine's error list in order (all of them when there are
\* fewer); the summary carries the whole, unbounded list.
C7_LoggedErrorsBounded ==
    /\ run_log.status # "none" =>
           /\ Len(run_log.errors) <= 5
           /\ Len(run_log.errors) = (IF Len(errors) < 5 THEN Len(errors) ELSE 5)
           /\ \A k \in 1..Len(run_log.errors) : run_log.errors[k] = errors[k]
    /\ (pc = "returned" /\ properties # <<>>) => summary.errors = errors

\* six errors are on the engine and the Run Log row got five
C7_Witness ==
    /\ pc = "returned"
    /\ Len(errors) > 5
    /\ Len(run_log.errors) = 5
    /\ summary.errors = errors

HotEmitted ==
    \/ pc \in {"replace_warm", "replace_stats"}
    \/ WritesOver /\ Wrote /\ ~write_error

WarmEmitted ==
    \/ pc = "replace_stats"
    \/ WritesOver /\ Wrote /\ ~write_error

\* C8: the Hot Leads tab written by run holds exactly the scored HOT records
\* and the Warm Leads tab exactly the WARM ones, each by propensity_score
\* non-increasing.
C8_TierLists ==
    /\ HotEmitted => IsTierList(hot_tab, "HOT")
    /\ WarmEmitted => IsTierList(warm_tab, "WARM")

\* two HOT records were scored in ascending order and written in descending
C8_Witness ==
    /\ pc = "returned"
    /\ Wrote /\ ~write_error
    /\ Len(hot_tab) = 2
    /\ hot_tab[1].parcel_id = "P2"
    /\ hot_tab[1].propensity_score.v > hot_tab[2].propensity_score.v

\* C9: whenever run has returned or failed, the Neighborhood Stats tab holds
\* the complete stats of the previous run (what it held when this run began)
\* or the complete stats of this run, never an empty or partial set.
C9_AtomicReplace ==
    WritesOver =>
        \/ stats_tab = before.stats_tab
        \/ IsCompleteStats(stats_tab)

AllReflectRun ==
    /\ MasterReflectsRun
    /\ IsTierList(hot_tab, "HOT")
    /\ IsTierList(warm_tab, "WARM")
    /\ IsCompleteStats(stats_tab)

KeptOrCleared(tab, old) == tab = old \/ tab = <<>>

-----------------------------------------------------------------------------
(* Claims about load_config (checked under Spec) *)

\* the current run called load_config with a client
LoadedConfig == calls \cap {"get_config", "get_config raised"} # {}

\* C11: after any load_config call, every key of DEFAULT_CONFIG holds the
\* value the store returned for it, or the hard-coded default when the store
\* returned none; no other key is added; and when get_config raised the
\* config equals the defaults.
C11_LoadConfig ==
    LoadedConfig =>
        /\ DOMAIN config = DOMAIN DEFAULT_CONFIG
        /\ "get_config" \in calls =>
               \A k \in DOMAIN DEFAULT_CONFIG :
                   config[k] = IF k \in DOMAIN store_config
                               THEN store_config[k] ELSE DEFAULT_CONFIG[k]
        /\ "get_config raised" \in calls => config = DEFAULT_CONFIG

-----------------------------------------------------------------------------
(* Claims about normalize_address and is_owner_occupied (AddressSpec) *)

Normalized == pc \in {"normalized", "compared"}

\* the unit forms the claim names, as they follow a base address
ClaimedUnitForms ==
    { <<" ", "A", "P", "T", " ", "2", "B">>,
      <<" ", "U", "N", "I", "T", " ", "5">>,
      <<" ", "S", "T", "E", " ", "1", "0", "0">>,
      <<" ", "#", "5">>,
      <<" ", "L", "O", "T", " ", "1", "2">> }

SameWord(v, w) ==
    \/ Lower(v) = Lower(w)
    \/ /\ Lower(v) \in DOMAIN STREET_TYPE_MAP
       /\ Lower(w) \in DOMAIN STREET_TYPE_MAP
       /\ STREET_TYPE_MAP[Lower(v)] = STREET_TYPE_MAP[Lower(w)]
    \/ /\ Lower(v) \in DOMAIN DIRECTION_MAP
       /\ Lower(w) \in DOMAIN DIRECTION_MAP
       /\ DIRECTION_MAP[Lower(v)] = DIRECTION_MAP[Lower(w)]

\* the two addresses differ at most in letter case and in the synonym written
SameUpToSpelling ==
    /\ ~Falsy(addresses.property_address)
    /\ ~Falsy(addresses.mailing_address)
    /\ LET v == Split(addresses.property_address)
           w == Split(addresses.mailing_address)
       IN  /\ Len(v) = Len(w)
           /\ \A i \in 1..Len(v) : SameWord(v[i], w[i])

\* C19: two addresses that differ only in letter case and in the synonym of a
\* street type or direction normalize to the same string, and
\* is_owner_occupied is true for them; it is false for '456 Oak Ave' against
\* '789 Elm St'.
C19_SpellingInsensitive ==
    /\ (Normalized /\ SameUpToSpelling) => normalized.property = normalized.mailing
    /\ (pc = "compared" /\ SameUpToSpelling) => owner_occupied.value = TRUE
    /\ (/\ pc = "compared"
        /\ addresses.property_address = <<"4", "5", "6", " ", "O", "a", "k", " ", "A", "v", "e">>
        /\ addresses.mailing_address = <<"7", "8", "9", " ", "E", "l", "m", " ", "S", "t">>)
           => owner_occupied.value = FALSE

\* '123 Main Street' against '123 MAIN ST' was found owner occupied
C19_Witness ==
    /\ pc = "compared"
    /\ addresses.property_address = <<"1", "2", "3", " ", "M", "a", "i", "n", " ", "S", "t", "r", "e", "e", "t">>
    /\ addresses.mailing_address = <<"1", "2", "3", " ", "M", "A", "I", "N", " ", "S", "T">>
    /\ normalized.property = normalized.mailing
    /\ normalized.property = <<"1", "2", "3", " ", "M", "A", "I", "N", " ", "S", "T">>
    /\ owner_occupied.value = TRUE

\* C20: is_owner_occupied is false whenever either address is empty, and true
\* whenever the parts of the two addresses before their first comma are equal
\* after normalization, also when only one of them goes on after the comma.
C20_StreetLineMatch ==
    pc = "compared" =>
        LET a == addresses.property_address
            b == addresses.mailing_address
        IN  /\ (Falsy(a) \/ Falsy(b)) => owner_occupied.value = FALSE
            /\ (/\ ~Falsy(a)
                /\ ~Falsy(b)
                /\ normalize_address(BeforeComma(a)) = normalize_address(BeforeComma(b)))
                   => owner_occupied.value = TRUE

-----------------------------------------------------------------------------
(* Claims about transform_property and the record functions (IngestSpec) *)

\* a record was built
Built == record # NoneValue

MissesRequired(rec) == rec.parcel_id = <<>> \/ rec.address = <<>> \/ rec.zip = <<>>

NegativeAmount(rec) ==
    \/ IsNum(rec.purchase_price) /\ rec.purchase_price.v < 0
    \/ IsNum(rec.assessed_value) /\ rec.assessed_value.v < 0

YearOutOfRange(rec) ==
    /\ rec.year_built # NoneValue
    /\ (rec.year_built.v < 1800 \/ rec.year_built.v > CurrentYear + 1)

\* C12: validate_property_record returns is_valid = false with a non-empty
\* list of reasons exactly when the record misses parcel_id, address or zip,
\* has a negative purchase_price or assessed_value, or has a year_built
\* outside 1800..current_year+1, is_valid being true iff the list is empty;
\* and a raw record whose parcel_id, address or zip is absent is dropped
\* (transform_property returns None).
C12_Validation ==
    pc = "returned" =>
        /\ Built =>
              /\ validation.is_valid <=> validation.errors = <<>>
              /\ ~validation.is_valid <=>
                     \/ MissesRequired(record)
                     \/ NegativeAmount(record)
                     \/ YearOutOfRange(record)
        /\ (Falsy(raw_data.parcel_id) \/ Falsy(raw_data.address) \/ Falsy(raw_data.zip))
              => result = NoneValue

\* C13: every record built by format_property_record and accepted by
\* validate_property_record has a zip of exactly five digits.
C13_FiveDigitZip ==
    pc = "returned" /\ result # NoneValue =>
        Len(result.zip) = 5 /\ AllDigits(result.zip)

\* the amounts of the record are numbers
Amounts == IsNum(record.purchase_price) /\ IsNum(record.assessed_value)

\* the market value of the record is its assessed value times the multiplier
MarketValueIsProduct ==
    record.assessed_value.v % 100 = 0 =>
        record.estimated_market_value
            = Num((record.assessed_value.v \div 100) * config.market_value_multiplier)

\* equity and gain are those of the difference of market value and price
EquityIsDifference ==
    /\ record.estimated_equity
           = Num(record.estimated_market_value.v - record.purchase_price.v)
    /\ record.equity_gain_pct
           = Num(RoundedQuotient(record.estimated_market_value.v - record.purchase_price.v,
                                 record.purchase_price.v, 4))

EquityIsZero == record.estimated_equity = Num(0) /\ record.equity_gain_pct = Num(0)

\* assessed 300000, multiplier 1.1, price 250000
EquityExample ==
    /\ Built
    /\ record.assessed_value = Num(30000000)
    /\ record.purchase_price = Num(25000000)
    /\ config.market_value_multiplier = 110

EquityExampleResult ==
    /\ record.estimated_market_value = Num(33000000)
    /\ record.estimated_equity = Num(8000000)
    /\ record.equity_gain_pct = Num(3200)

\* C14 as stated: estimated_market_value = assessed_value x multiplier; when
\* purchase_price > 0, estimated_equity = estimated_market_value -
\* purchase_price and equity_gain_pct = estimated_equity / purchase_price x
\* 100; when purchase_price is 0 or absent, both are 0.0.
C14_Original ==
    Built /\ Amounts =>
        /\ MarketValueIsProduct
        /\ record.purchase_price.v > 0 => EquityIsDifference
        /\ record.purchase_price.v = 0 => EquityIsZero
        /\ EquityExample => EquityExampleResult

\* C14: estimated_market_value = assessed_value x multiplier; when
\* purchase_price > 0 and the estimated market value is not 0,
\* estimated_equity = estimated_market_value - purchase_price and
\* equity_gain_pct = estimated_equity / purchase_price x 100, both rounded to
\* two decimals (300000, 1.1, 250000 gives 330000, 80000, 32.0); when
\* purchase_price is 0, absent or negative, or the estimated market value is
\* 0, both are 0.0.
C14_EquityMath ==
    Built /\ Amounts =>
        /\ MarketValueIsProduct
        /\ record.purchase_price.v > 0 /\ record.estimated_market_value.v # 0
               => EquityIsDifference
        /\ record.purchase_price.v <= 0 \/ record.estimated_market_value.v = 0
               => EquityIsZero
        /\ EquityExample => EquityExampleResult

C14_Witness == pc = "formatted" /\ EquityExample /\ EquityExampleResult

\* purchase dates that match none of the accepted formats
UnparsableDates == { <<"n", "o", "t", " ", "a", " ", "d", "a", "t", "e">>, <<"0", "2", "/", "3", "0", "/", "2", "0", "2", "0">>, <<"1", "3", "/", "0", "1", "/", "2", "0", "2", "0">>, <<"N", "/", "A">> }

\* purchase dates after the day of the call
FutureDates == { <<"1", "2", "/", "3", "1", "/", "2", "0", "3", "0">>, <<"2", "0", "2", "7", "-", "0", "1", "-", "0", "1">>, <<"1", "1", "/", "0", "7", "/", "2", "0", "2", "6">> }

\* C15: for a purchase date that matches none of the accepted formats,
\* format_property_record still builds the record, with years_owned = 0.0 and
\* an empty purchase_date; years_owned is never negative, also for a purchase
\* date in the future.
C15_DateFallback ==
    /\ pc # "raw" /\ raw_data.transfer_date \in UnparsableDates =>
           Built /\ record.years_owned = 0 /\ record.purchase_date = <<>>
    /\ Built => record.years_owned >= 0
    /\ Built /\ raw_data.transfer_date \in FutureDates =>
           record.years_owned = 0 /\ record.purchase_date # <<>>

C15_Witness ==
    /\ pc = "formatted"
    /\ raw_data.transfer_date = <<"n", "o", "t", " ", "a", " ", "d", "a", "t", "e">>
    /\ record.years_owned = 0
    /\ record.purchase_date = <<>>

-----------------------------------------------------------------------------
(* Claims about the two aggregation passes of run (checked under Spec) *)

\* the ZIPs of the batch that run read
BatchZips == {properties[j].zip : j \in 1..Len(properties)} \ {""}

\* the scored records of ZIP z with the given tier
ScoredWithTier(z, tier) ==
    {i \in ScoredIdx : scored_properties[i].zip = z
                       /\ scored_properties[i].priority_tier = tier}

\* the stats tab was replaced by this run
StatsPersisted == pc = "log" /\ has_client /\ ~dry_run /\ ~write_error

\* between the scoring and the second pass the stats are those of the first
\* pass: one entry per ZIP of the whole batch, counting every record of it
Pass1Stats ==
    /\ DOMAIN neighborhood_stats = BatchZips
    /\ \A z \in BatchZips :
           neighborhood_stats[z].total_properties = Cardinality(InZip(z))

\* C21: in run the turnover sub-score of every record is taken from the
\* pass-1 stats, which are computed over the whole batch before any record is
\* scored and do not change while records are scored; the stats that are
\* persisted are those of pass 2, computed after every record was scored.
C21_TwoPasses ==
    /\ [](pc = "score" => scored_properties = <<>> /\ Pass1Stats)
    /\ [][pc = "score" => neighborhood_stats' = neighborhood_stats]_vars
    /\ [](pc = "pass2" =>
            /\ Pass1Stats
            /\ \A i \in ScoredIdx :
                   scored_properties[i].propensity_score
                       = Num(Min(100, Max(0, RoundHalfEven(
                             WeightedSum(SubScores(scored_properties[i])), 100)))))
    /\ [](StatsPersisted =>
            /\ Len(stats_tab) = Cardinality(DOMAIN neighborhood_stats)
            /\ \A k \in 1..Len(stats_tab) :
                   LET z == stats_tab[k].neighborhood
                   IN  /\ stats_tab[k] = neighborhood_stats[z]
                       /\ stats_tab[k].total_properties
                              = Cardinality({i \in ScoredIdx : scored_properties[i].zip = z})
                       /\ stats_tab[k].hot_lead_count
                              = Cardinality(ScoredWithTier(z, "HOT"))
                       /\ stats_tab[k].warm_lead_count
                              = Cardinality(ScoredWithTier(z, "WARM")))

\* a run persisted stats that count a HOT lead, scored while the pass-1 stats
\* counted none
C21_Witness ==
    /\ StatsPersisted
    /\ \E k \in 1..Len(stats_tab) : stats_tab[k].hot_lead_count > 0

-----------------------------------------------------------------------------
(* Claims about calculate_neighborhood_stats (TurnoverSpec and Spec) *)

\* the records of ZIP z bought within the trailing 365 days of today
TrailingYearInZip(z) ==
    {j \in InZip(z) : /\ properties[j].purchase_date.t = "num"
                      /\ Today - properties[j].purchase_date.v >= 0
                      /\ Today - properties[j].purchase_date.v <= 365}

\* C22: for every ZIP of the result of calculate_neighborhood_stats,
\* turnover_rate_12mo is 100 x (records of the ZIP with 0 <= today -
\* purchase_date <= 365 days) / (records of the ZIP); absent, unparseable and
\* future purchase dates do not count as recent purchases.
C22_TurnoverRate ==
    pc = "score" =>
        \A z \in DOMAIN neighborhood_stats :
            neighborhood_stats[z].turnover_rate_12mo
                = RoundHalfEven(Cardinality(TrailingYearInZip(z)) * 10000,
                                Cardinality(InZip(z)))

\* the sum of a numeric field over the records of ZIP z, '' and absent
\* values counting 0
RECURSIVE GroupSum(_, _, _)
GroupSum(props, z, field) ==
    IF props = <<>> THEN 0
    ELSE (IF Head(props).zip = z THEN FloatOrZero(Head(props)[field]).val ELSE 0)
         + GroupSum(Tail(props), z, field)

GroupOf(props, z) == {i \in 1..Len(props) : props[i].zip = z}

\* stats is what the claim says of the batch props
GroupedStats(stats, props) ==
    /\ DOMAIN stats = {props[i].zip : i \in 1..Len(props)} \ {""}
    /\ \A z \in DOMAIN stats :
           LET count == Cardinality(GroupOf(props, z))
           IN  /\ stats[z].neighborhood = z
               /\ stats[z].total_properties = count
               /\ stats[z].avg_years_owned
                      = RoundHalfEven(GroupSum(props, z, "years_owned"), count)
               /\ stats[z].avg_equity
                      = RoundHalfEven(GroupSum(props, z, "estimated_equity") * 100, count)
               /\ stats[z].avg_propensity_score
                      = RoundHalfEven(GroupSum(props, z, "propensity_score") * 100, count)
               /\ stats[z].hot_lead_count
                      = Cardinality({i \in GroupOf(props, z) : props[i].priority_tier = "HOT"})
               /\ stats[z].warm_lead_count
                      = Cardinality({i \in GroupOf(props, z) : props[i].priority_tier = "WARM"})

\* run is between its second pass and its return
AfterSecondPass ==
    pc \in {"update_master", "replace_hot", "replace_warm", "replace_stats", "log"}

\* C23: calculate_neighborhood_stats emits one entry per non-empty ZIP, with
\* total_properties the group's record count, avg_years_owned and avg_equity
\* the group's sums divided by the count (to two decimals), avg_propensity_score
\* the sum of the scores the group's records have divided by the count, and
\* hot_lead_count / warm_lead_count the numbers of HOT / WARM records; records
\* with an empty zip belong to no group.  Both calls of run are checked: on
\* the rows read and on the scored records.
C23_GroupedStats ==
    /\ pc = "score" => GroupedStats(neighborhood_stats, properties)
    /\ AfterSecondPass => GroupedStats(neighborhood_stats, scored_properties)

\* the batch held a record without a ZIP and a record with one, and the
\* entry of that ZIP carries its score
C23_Witness ==
    /\ AfterSecondPass
    /\ \E i \in ScoredIdx : scored_properties[i].zip = ""
    /\ \E z \in DOMAIN neighborhood_stats :
           /\ neighborhood_stats[z].total_properties = 1
           /\ neighborhood_stats[z].avg_propensity_score > 0

-----------------------------------------------------------------------------
(* Claims about calculate_td_fit_score (checked under ScoreSpec) *)

\* the weighted sum of the claim, in hundredths, for a scored record
TdFitSum(rec, price_min, price_max) ==
    LET mv == FloatOrZero(rec.estimated_market_value).val
        equity == FloatOrZero(rec.estimated_equity).val
        zone == get_neighborhood_type(rec.zip)
    IN    25 * (IF mv < price_min THEN 50 ELSE IF mv <= price_max THEN 100 ELSE 60)
        + 35 * (IF equity < 50000 THEN 40
                ELSE IF equity < 100000 THEN 70
                ELSE IF equity < 200000 THEN 90
                ELSE 100)
        + 20 * (IF OwnerOccupiedFlag(rec.is_owner_occupied) THEN 100 ELSE 60)
        + 20 * (IF zone = "primary" THEN 100 ELSE IF zone = "adjacent" THEN 70 ELSE 40)

\* C24: td_fit_score = clamp(round(0.25 x price-tier score + 0.35 x equity
\* bucket + 0.20 x (100 if owner-occupied else 60) + 0.20 x (100 primary ZIP,
\* 70 adjacent, 40 otherwise))); the weights are fixed, so every configuration
\* with the same target prices gives the record the same td_fit_score,
\* whatever its weight_* values, thresholds and eligibility minimums.
C24_TdFit ==
    pc = "pass2" =>
        \A i \in ScoredIdx :
            LET rec == scored_properties[i]
            IN  /\ rec.td_fit_score
                       = Num(Min(100, Max(0, RoundHalfEven(
                             TdFitSum(rec, config.target_price_min,
                                      config.target_price_max), 100))))
                /\ \A c \in ScoreConfigs :
                       /\ c.target_price_min = config.target_price_min
                       /\ c.target_price_max = config.target_price_max
                       => calculate_td_fit_score(rec, c) = Ok(rec.td_fit_score.v)

\* under altered weights and minimums a record in the target range with
\* equity 150000, not owner-occupied, in a primary ZIP got 88 (from 88.5), and
\* a record below the range outside the service area got its own score
C24_Witness ==
    /\ pc = "pass2"
    /\ config.weight_years_owned = 0
    /\ config.min_equity = 0
    /\ \E i \in ScoredIdx :
           /\ scored_properties[i].estimated_equity = Num(150000)
           /\ scored_properties[i].td_fit_score = Num(88)
    /\ \E i \in ScoredIdx :
           /\ scored_properties[i].zip = "99999"
           /\ scored_properties[i].td_fit_score # Num(88)

-----------------------------------------------------------------------------
(* Claims about dry runs (checked under Spec) *)

WriteCalls == {"update_rows", "clear_sheet", "write_sheet_from_dicts", "log_run"}

\* the current run made no write call and left the four tabs and the run log
\* as they were at its start
NoWrites ==
    /\ calls \cap WriteCalls = {}
    /\ Tabs = before
    /\ run_log = NoLog

\* a dry run never writes, at any point between its start and its end
DryRunWritesNothing == dry_run => NoWrites

\* C25: run(dry_run=True) calls none of update_rows, clear_sheet,
\* write_sheet_from_dicts or log_run, whatever the batch it read and whether
\* or not records fail, and still returns a summary.
C25_DryRun ==
    dry_run /\ properties # <<>> /\ pc \in {"returned", "raised"} =>
        /\ NoWrites
        /\ pc = "returned"
        /\ summary.status # "none"

-----------------------------------------------------------------------------
(* Claims about what score_properties leaves alone (checked under ScoreSpec) *)

ScoreFields == {"propensity_score", "td_fit_score", "priority_tier", "last_updated"}

\* the record at position i of the batch is in the list the call returned
ReturnedAt(i) ==
    \E k \in 1..Len(scored_properties') : scored_properties'[k] = properties'[i]

\* one call of score_properties, from the batch before it to the batch after
ScoreCallFrame ==
    /\ Len(properties') = Len(properties)
    /\ \A i \in PropIdx :
           /\ DOMAIN properties'[i] = DOMAIN properties[i]
           /\ \A f \in DOMAIN properties[i] \ ScoreFields :
                  properties'[i][f] = properties[i][f]
           /\ IF ScoringThrows(properties[i])
              THEN properties'[i] = properties[i] /\ ~ReturnedAt(i)
              ELSE ReturnedAt(i)
    /\ \A k \in 1..Len(scored_properties') :
           \E i \in PropIdx : scored_properties'[k] = properties'[i]
    /\ config' = config
    /\ neighborhood_stats' = neighborhood_stats

\* C26: score_properties changes nothing but propensity_score, td_fit_score,
\* priority_tier and last_updated of the records it returns; a record whose
\* scoring fails keeps every field, the score fields it carried included.
C26_ScoreFrame == [][ScoreCallFrame]_vars

\* a call returned one record with new scores and dropped a record that
\* carried the scores of an earlier run, which it still carries
C26_Witness ==
    /\ pc = "pass2"
    /\ Len(scored_properties) = 1
    /\ scored_properties[1].last_updated = NowStamp
    /\ \E i \in PropIdx :
           /\ ScoringThrows(properties[i])
           /\ properties[i].propensity_score = Num(72)
           /\ properties[i].priority_tier = "WARM"
           /\ properties[i].last_updated = "earlier"

-----------------------------------------------------------------------------
(* Claims about repeated runs of one engine (checked under Spec) *)

\* the run that just returned dropped no record and met no write failure
CleanRun ==
    /\ pc = "returned"
    /\ ~write_error
    /\ \A i \in PropIdx : ~ScoringThrows(properties[i])

\* C27: the status and the error list of a run depend on that run only: a run
\* in which no record fails and no write fails reports 'success' and an empty
\* error list, whatever errors earlier runs of the same engine recorded.
C27_RunLocalStatus ==
    CleanRun => summary.status = "success" /\ summary.errors = <<>>

\* the turnover_rate_12mo the first pass of the current run gave ZIP z: the
\* share of the batch's records of z bought within the last 365 days
FirstPassTurnover(z) ==
    RoundHalfEven(Cardinality(RecentInZip(z)) * 10000, Cardinality(InZip(z)))

\* C28: for each ZIP of the batch, the turnover_rate_12mo of the final
\* (second-pass) statistics equals the first-pass turnover_rate_12mo that was
\* used to score the records, also when records failed scoring and were dropped.
C28_TurnoverStable ==
    AfterSecondPass =>
        \A z \in BatchZips :
            /\ z \in DOMAIN neighborhood_stats
            /\ neighborhood_stats[z].turnover_rate_12mo = FirstPassTurnover(z)

-----------------------------------------------------------------------------
(* Claims about the lead counts of a run (checked under Spec) *)

RECURSIVE SumOver(_, _)
\* the sum of f over the finite set S
SumOver(f, S) ==
    IF S = {} THEN 0
    ELSE LET x == CHOOSE y \in S : TRUE
         IN  f[x] + SumOver(f, S \ {x})

\* the per-ZIP counts of the final statistics, summed over the ZIPs
TotalHotCount ==
    SumOver([z \in DOMAIN neighborhood_stats |-> neighborhood_stats[z].hot_lead_count],
            DOMAIN neighborhood_stats)
TotalWarmCount ==
    SumOver([z \in DOMAIN neighborhood_stats |-> neighborhood_stats[z].warm_lead_count],
            DOMAIN neighborhood_stats)

\* a run went through both passes and returned its summary
FullRunReturned == pc = "returned" /\ properties # <<>>

\* no record is in both lists, and together they hold at most the scored records
LeadListsDisjoint ==
    FullRunReturned =>
        /\ \A k \in 1..Len(hot_leads), l \in 1..Len(warm_leads) :
               hot_leads[k].parcel_id # warm_leads[l].parcel_id
        /\ summary.hot_leads + summary.warm_leads <= summary.records_processed

\* C29: the HOT and WARM lists of a run are disjoint, hot_leads + warm_leads
\* <= records_processed, and the hot_lead_count (warm_lead_count) of the final
\* statistics summed over the ZIPs equals the summary's hot_leads (warm_leads).
C29_LeadCounts ==
    FullRunReturned =>
        /\ \A k \in 1..Len(hot_leads), l \in 1..Len(warm_leads) :
               hot_leads[k].parcel_id # warm_leads[l].parcel_id
        /\ summary.hot_leads + summary.warm_leads <= summary.records_processed
        /\ TotalHotCount = summary.hot_leads
        /\ TotalWarmCount = summary.warm_leads

-----------------------------------------------------------------------------
(* Claims about the range of the propensity score (checked under ScoreSpec) *)

\* C30: under the default weights the clamp never alters a propensity score:
\* for every record with years_owned >= 0 the weighted sum of the six
\* sub-scores lies in [28, 98], so propensity_score is the rounded sum and
\* lies between 28 and 98.
C30_ClampIdle ==
    AfterScoring /\ DefaultWeights =>
        \A i \in ScoredIdx :
            LET r == scored_properties[i]
                total == WeightedSum(SubScores(r))
            IN  FloatOrZero(r.years_owned).val >= 0 =>
                    /\ 2800 <= total /\ total <= 9800
                    /\ r.propensity_score = Num(RoundHalfEven(total, 100))
                    /\ 28 <= r.propensity_score.v /\ r.propensity_score.v <= 98

\* one batch under the default weights holds a record at each end of the
\* range: every sub-score at its lowest (28) and every sub-score at its
\* highest (98)
C30_Witness ==
    /\ pc = "pass2"
    /\ DefaultWeights
    /\ \E i \in ScoredIdx :
           /\ SubScores(scored_properties[i]) = <<10, 10, 30, 70, 50, 40>>
           /\ scored_properties[i].propensity_score = Num(28)
    /\ \E i \in ScoredIdx :
           /\ SubScores(scored_properties[i]) = <<100, 100, 100, 90, 100, 90>>
           /\ scored_properties[i].propensity_score = Num(98)

=============================================================================
